---------------------------- MODULE Spec2Model ----------------------------
(***************************************************************************)
(* A model of the Steane code tooling: the classical helpers of            *)
(* helper_functions.py (bit strings, software correction, histogram        *)
(* classification, fault tolerant result processing) and the gate          *)
(* synthesis of circuits.py (SteaneCodeLogicalQubit).                      *)
(*                                                                         *)
(* Python strings are sequences of one-character strings, Python lists are *)
(* sequences, and list/qubit indices keep their 0-based Python values (so  *)
(* element k of a Python list l is l[k + 1] here).                         *)
(***************************************************************************)
EXTENDS Integers, Sequences, FiniteSets, TLC

VARIABLES
    pc,         \* position of the modelled call: "call" before, "done" after
    args,       \* the arguments of the call being modelled
    ret,        \* what the call returned (or the exception it raised)
    stage,      \* circuit builder: which methods have been called so far
    circuit,    \* circuit builder: the gates appended to the QuantumCircuit
    qstate      \* the state vector the appended gates produce from |0...0>

vars == <<pc, args, ret, stage, circuit, qstate>>

NoValue == [none |-> TRUE]

\* a call that returned val, and a call that raised exception e
Ok(val) == [exc |-> "none", val |-> val]
Raise(e) == [exc |-> e, val |-> <<>>]

(***************************************************************************)
(* Generic list helpers.                                                   *)
(***************************************************************************)
\* Python range(a, b) as a sequence
Range(a, b) == [k \in 1..(IF b > a THEN b - a ELSE 0) |-> a + k - 1]

\* list[k] for a 0-based Python index k
At(list, k) == list[k + 1]

\* x in list
InList(x, list) == \E k \in 1..Len(list) : list[k] = x

RECURSIVE ConcatAll(_)
ConcatAll(lists) ==
    IF lists = <<>> THEN <<>> ELSE Head(lists) \o ConcatAll(Tail(lists))

RECURSIVE SumSeq(_)
SumSeq(s) == IF s = <<>> THEN 0 ELSE Head(s) + SumSeq(Tail(s))

Min2(a, b) == IF a < b THEN a ELSE b
Max2(a, b) == IF a > b THEN a ELSE b

\* all sequences over S of length exactly n
SeqsOfLen(S, n) == [1..n -> S]

BitChars == {"0", "1"}

(***************************************************************************)
(* helper_functions.py: bit-string utilities                               *)
(***************************************************************************)
SPACE == " "

\* input_string[::-1]
string_reverse(input_string) ==
    [k \in 1..Len(input_string) |-> input_string[Len(input_string) + 1 - k]]

\* int(s, 2) for a non-empty string of binary digits
RECURSIVE BinToInt(_)
BinToInt(s) ==
    IF s = <<>> THEN 0
    ELSE 2 * BinToInt(SubSeq(s, 1, Len(s) - 1)) + (IF s[Len(s)] = "1" THEN 1 ELSE 0)

\* the character the loop body of strings_AND_bitwise appends for (i, j)
AndBitwiseChar(i, j) ==
    IF (i = "0" /\ j = "1") \/ (i = "1" /\ j = "0") THEN "1" ELSE "0"

\* strings_AND_bitwise(string1, string2); raises when the lengths differ
strings_AND_bitwise(string1, string2) ==
    IF Len(string1) # Len(string2)
    THEN Raise("Exception")
    ELSE Ok([k \in 1..Len(string1) |-> AndBitwiseChar(string1[k], string2[k])])

\* one pass of the shifting loop: string[1:7] + '0'
MaskShift(string) == SubSeq(string, 2, Min2(7, Len(string))) \o <<"0">>

RECURSIVE MaskShiftTimes(_, _)
MaskShiftTimes(string, n) ==
    IF n <= 0 THEN string ELSE MaskShiftTimes(MaskShift(string), n - 1)

\* the arguments on which string_ancilla_mask returns an Exception object
MaskArgsBad(location, length) == location < 1 \/ length < 1 \/ length < location

\* string_ancilla_mask(location, length) for integer arguments; on a bad
\* argument the function RETURNS (does not raise) an Exception object, here <<>>
string_ancilla_mask(location, length) ==
    IF MaskArgsBad(location, length)
    THEN <<>>
    ELSE MaskShiftTimes([k \in 1..length |-> IF k = length THEN "1" ELSE "0"],
                        location - 1)

\* correct_qubit with the ancilla read in the printed order (no reversal)
correct_qubit_no_reverse(data_in, ancilla, data_qubits) ==
    IF ancilla = <<"0", "0", "0">>
    THEN Ok(data_in)
    ELSE LET int_ancilla == BinToInt(ancilla)
         IN  IF MaskArgsBad(int_ancilla, data_qubits)
             THEN Raise("TypeError")
             ELSE strings_AND_bitwise(data_in,
                                      string_ancilla_mask(int_ancilla, data_qubits))

\* correct_qubit(data_in, ancilla, data_qubits)
correct_qubit(data_in, ancilla, data_qubits) ==
    IF ancilla = <<"0", "0", "0">>
    THEN Ok(data_in)
    ELSE LET bin_ancilla == string_reverse(ancilla)
             int_ancilla == BinToInt(bin_ancilla)
             ancilla_mask == string_ancilla_mask(int_ancilla, data_qubits)
         IN  IF ancilla = <<>> THEN Raise("ValueError")   \* int('', 2)
             ELSE IF MaskArgsBad(int_ancilla, data_qubits)
                  THEN Raise("TypeError")   \* len() of an Exception object
                  ELSE strings_AND_bitwise(data_in, ancilla_mask)

(***************************************************************************)
(* Standing data of helper_functions.py                                    *)
(***************************************************************************)
get_parity_check_matrix ==
    << <<"0","0","0","1","1","1","1">>,
       <<"0","1","1","0","0","1","1">>,
       <<"1","0","1","0","1","0","1">> >>

get_codewords ==
    << <<"0","0","0","0","0","0","0">>,
       <<"1","0","1","0","1","0","1">>,
       <<"0","1","1","0","0","1","1">>,
       <<"1","1","0","0","1","1","0">>,
       <<"0","0","0","1","1","1","1">>,
       <<"1","0","1","1","0","1","0">>,
       <<"0","1","1","1","1","0","0">>,
       <<"1","1","0","1","0","0","1">> >>

DATA_QUBITS == 7

FlipChar(c) == IF c = "1" THEN "0" ELSE "1"

\* s with the character at 0-based position i complemented
FlipAt(s, i) == [k \in 1..Len(s) |-> IF k = i + 1 THEN FlipChar(s[k]) ELSE s[k]]

(***************************************************************************)
(* helper_functions.py: validity of one measured data string               *)
(***************************************************************************)
\* calculate_parity_matrix_totals(): number of ones in each column
calculate_parity_matrix_totals ==
    [k \in 1..Len(get_parity_check_matrix[1]) |->
        SumSeq([r \in 1..Len(get_parity_check_matrix) |->
                    IF get_parity_check_matrix[r][k] = "1" THEN 1 ELSE 0])]

\* the 0-based columns whose total is 1
calculate_simple_parity_bits_total_one ==
    SelectSeq(Range(0, Len(calculate_parity_matrix_totals)),
              LAMBDA c : calculate_parity_matrix_totals[c + 1] = 1)

\* calculate_simple_parity_bits(): the 0-based columns whose total is 2
calculate_simple_parity_bits ==
    SelectSeq(Range(0, Len(calculate_parity_matrix_totals)),
              LAMBDA c : calculate_parity_matrix_totals[c + 1] = 2)

\* flip_code_words with every flipped bit put in front of new_string
flip_code_words_prepend(codewords_in) ==
    [w \in 1..Len(codewords_in) |->
        [k \in 1..Len(codewords_in[w]) |->
            FlipChar(codewords_in[w][Len(codewords_in[w]) + 1 - k])]]

\* flip_code_words(codewords_in) for codewords made of '0' and '1'
flip_code_words(codewords_in) ==
    [w \in 1..Len(codewords_in) |->
        [k \in 1..Len(codewords_in[w]) |-> FlipChar(codewords_in[w][k])]]

\* '1' when any of the characters at the positions is '1'
RECURSIVE SimpleParity_any(_, _)
SimpleParity_any(s, bits) ==
    IF bits = <<>> THEN "0"
    ELSE IF s[bits[Len(bits)] + 1] = "1" THEN "1"
         ELSE SimpleParity_any(s, SubSeq(bits, 1, Len(bits) - 1))

\* parity ('0' or '1') of the characters of s at the 0-based positions in bits
RECURSIVE SimpleParity(_, _)
SimpleParity(s, bits) ==
    IF bits = <<>> THEN "0"
    ELSE LET rest == SimpleParity(s, SubSeq(bits, 1, Len(bits) - 1))
         IN  IF s[bits[Len(bits)] + 1] = "1" THEN FlipChar(rest) ELSE rest

\* compute_string_validity(value, codewords, reversed_data_string,
\*                         post_selection, simple, single, single_bit)
\* returns (valid, invalid, outside_codeword), or raises
Validity(valid, invalid, outside_codeword) ==
    [exc |-> "none", valid |-> valid, invalid |-> invalid,
     outside_codeword |-> outside_codeword]

RaiseValidity(e) == [exc |-> e, valid |-> 0, invalid |-> 0, outside_codeword |-> 0]

compute_string_validity(value, codewords, reversed_data_string, post_selection, simple, single, single_bit) ==
    IF simple /\ post_selection THEN RaiseValidity("Exception")
    ELSE IF post_selection THEN
        IF InList(reversed_data_string, codewords)
        THEN Validity(value, 0, 0)
        ELSE IF InList(reversed_data_string, flip_code_words(codewords))
        THEN Validity(0, value, 0)
        ELSE Validity(0, 0, value)
    ELSE IF simple THEN
        IF \E b \in 1..Len(calculate_simple_parity_bits) :
              calculate_simple_parity_bits[b] + 1 > Len(reversed_data_string)
        THEN RaiseValidity("IndexError")
        ELSE IF InList(<<SimpleParity(reversed_data_string,
                                      calculate_simple_parity_bits)>>, codewords)
        THEN Validity(value, 0, 0)
        ELSE Validity(0, value, 0)
    ELSE IF single THEN
        IF single_bit + 1 > Len(reversed_data_string)
        THEN RaiseValidity("IndexError")
        ELSE IF InList(<<reversed_data_string[single_bit + 1]>>, codewords)
        THEN Validity(value, 0, 0)
        ELSE Validity(0, value, 0)
    ELSE
        IF InList(reversed_data_string, codewords)
        THEN Validity(value, 0, 0)
        ELSE Validity(0, value, 0)

(***************************************************************************)
(* str.split(): the maximal runs of non-space characters, in order.        *)
(***************************************************************************)
\* the least member of a non-empty set of numbers
MinOf(S) == CHOOSE x \in S : \A y \in S : x <= y

RECURSIVE SplitFrom(_, _)
\* the words of s that start at position k or later
SplitFrom(s, k) ==
    LET starts == {p \in k..Len(s) : s[p] # SPACE}
        first == MinOf(starts)
        stops == {q \in first..Len(s) : s[q] = SPACE}
        stop == IF stops = {} THEN Len(s) + 1 ELSE MinOf(stops)
    IN  IF starts = {} THEN <<>>
        ELSE <<SubSeq(s, first, stop - 1)>> \o SplitFrom(s, stop)

Split(s) == SplitFrom(s, 1)

\* ' '.join(words)
RECURSIVE Join(_)
Join(words) ==
    IF words = <<>> THEN <<>>
    ELSE IF Len(words) = 1 THEN words[1]
    ELSE words[1] \o <<SPACE>> \o Join(Tail(words))

\* a in b for two strings: a is a contiguous part of b
Substring(a, b) ==
    \E o \in 0..(Len(b) - Len(a)) : \A k \in 1..Len(a) : b[o + k] = a[k]

(***************************************************************************)
(* helper_functions.py: count_valid_output_strings                         *)
(***************************************************************************)
CountsResult(exc, count_valid, count_invalid, count_outside_codeword) ==
    [exc |-> exc, count_valid |-> count_valid, count_invalid |-> count_invalid,
     count_outside_codeword |-> count_outside_codeword]

\* the checks before the loop without the length check of simple mode
CountArgumentsError_simple_any_length(codewords, post_selection, simple, single) ==
    IF single /\ Len(codewords) # 1 THEN "ValueError"
    ELSE IF single /\ (simple \/ post_selection) THEN "ValueError"
    ELSE IF simple /\ post_selection THEN "ValueError"
    ELSE "none"

\* the error raised by the checks before the loop, or "none"
CountArgumentsError(codewords, post_selection, simple, single) ==
    IF single /\ Len(codewords) # 1 THEN "ValueError"
    ELSE IF single /\ (simple \/ post_selection) THEN "ValueError"
    ELSE IF simple /\ post_selection THEN "ValueError"
    ELSE IF simple /\ Len(codewords) # 1 THEN "ValueError"
    ELSE "none"

\* the loop over counts.items(), from the counters acc
RECURSIVE CountLoop(_, _, _, _, _, _, _, _)
CountLoop(acc, counts, codewords, data_location, post_selection, simple, single, single_bit) ==
    IF counts = <<>> \/ acc.exc # "none" THEN acc
    ELSE LET key == counts[1][1]
             value == counts[1][2]
             words == Split(key)
             data == IF data_location = 0 THEN key ELSE At(words, data_location)
             v == compute_string_validity(value, codewords, string_reverse(data),
                                          post_selection, simple, single, single_bit)
             next == IF data_location # 0 /\ data_location >= Len(words)
                     THEN [acc EXCEPT !.exc = "IndexError"]
                     ELSE IF v.exc # "none" THEN [acc EXCEPT !.exc = v.exc]
                     ELSE CountsResult("none", acc.count_valid + v.valid,
                                       acc.count_invalid + v.invalid,
                                       acc.count_outside_codeword + v.outside_codeword)
         IN  CountLoop(next, Tail(counts), codewords, data_location,
                       post_selection, simple, single, single_bit)

count_valid_output_strings(counts, codewords, data_location, post_selection, simple, single, single_bit) ==
    IF CountArgumentsError(codewords, post_selection, simple, single) # "none"
    THEN CountsResult(CountArgumentsError(codewords, post_selection, simple, single),
                      0, 0, 0)
    ELSE CountLoop(CountsResult("none", 0, 0, 0), counts, codewords, data_location,
                   post_selection, simple, single, single_bit)

(***************************************************************************)
(* helper_functions.py: process_FT_results                                 *)
(*                                                                         *)
(* cfg holds the keyword arguments.  A histogram (counts) is a sequence of *)
(* <<string, value>> pairs with distinct strings, in dictionary order.     *)
(***************************************************************************)
FTTotalKeys(cfg) ==
    cfg.ancilla_types * cfg.ancilla_qubits * cfg.ancilla_meas_repeats
        + (cfg.data_meas_qubits * cfg.data_meas_repeats) + 1

\* the local counters before the first histogram entry
FTZero ==
    [count_valid |-> 0, count_invalid |-> 0, count_outside_codeword |-> 0,
     ancilla_rejected |-> 0, ancilla_accepted |-> 0,
     data_rejected |-> 0, data_accepted |-> 0, exc |-> "none"]

\* data_OK that looks at the first two data measurement strings only
FTDataOK_first_two(qubit_strings, cfg) ==
    IF cfg.data_meas_repeats = 3
    THEN \A r \in 0..1 :
            InList(string_reverse(At(qubit_strings, cfg.data_meas_start + r)),
                   cfg.data_meas_strings)
    ELSE cfg.data_meas_repeats = 0

\* data_OK of one entry: the three reversed data measurement strings are
\* each in data_meas_strings (3 repeats), or there are none (0 repeats)
FTDataOK(qubit_strings, cfg) ==
    IF cfg.data_meas_repeats = 3
    THEN \A r \in 0..2 :
            InList(string_reverse(At(qubit_strings, cfg.data_meas_start + r)),
                   cfg.data_meas_strings)
    ELSE cfg.data_meas_repeats = 0

\* first index read for ancilla type i, loop counter j
FTFirst(i, j, cfg) ==
    i * (cfg.ancilla_qubits * cfg.ancilla_meas_repeats) + j * cfg.ancilla_meas_repeats

\* the three readings starting at first agree and are an allowed ancilla string
FTTripleOK(qubit_strings, first, cfg) ==
    /\ At(qubit_strings, first + 2) = At(qubit_strings, first + 1)
    /\ At(qubit_strings, first + 1) = At(qubit_strings, first)
    /\ InList(At(qubit_strings, first), <<cfg.anc_zero, cfg.anc_one>>)

\* X[j] taken from the second ancilla type instead of the first
FTX_second_type(qubit_strings, j, cfg) ==
    IF j < cfg.ancilla_meas_repeats /\ FTTripleOK(qubit_strings, FTFirst(1, j, cfg), cfg)
    THEN IF Substring(At(qubit_strings, FTFirst(1, j, cfg)), cfg.anc_zero)
         THEN <<"0">> ELSE <<"1">>
    ELSE <<>>

\* X[j] after the loops: '' unless the triple of type 0 was accepted
FTX(qubit_strings, j, cfg) ==
    IF j < cfg.ancilla_meas_repeats /\ FTTripleOK(qubit_strings, FTFirst(0, j, cfg), cfg)
    THEN IF Substring(At(qubit_strings, FTFirst(0, j, cfg)), cfg.anc_zero)
         THEN <<"0">> ELSE <<"1">>
    ELSE <<>>

FTCountAncillaOK(qubit_strings, cfg) ==
    Cardinality({ij \in (0..(cfg.ancilla_types - 1)) \X (0..(cfg.ancilla_meas_repeats - 1)) :
                    FTTripleOK(qubit_strings, FTFirst(ij[1], ij[2], cfg), cfg)})

\* the validity step without the reversal of the corrected data string
FTValidate_no_reverse(acc, corrected, value, cfg) ==
    IF corrected.exc # "none"
    THEN [acc EXCEPT !.exc = corrected.exc]
    ELSE LET v == compute_string_validity(value, cfg.codewords, corrected.val,
                                          cfg.post_selection, cfg.simple, FALSE, 0)
         IN  IF v.exc # "none" THEN [acc EXCEPT !.exc = v.exc]
             ELSE [acc EXCEPT !.count_valid = @ + v.valid,
                              !.count_invalid = @ + v.invalid,
                              !.count_outside_codeword = @ + v.outside_codeword]

\* the validity step shared by the three ancilla branches
FTValidate(acc, corrected, value, cfg) ==
    IF corrected.exc # "none"
    THEN [acc EXCEPT !.exc = corrected.exc]
    ELSE LET v == compute_string_validity(value, cfg.codewords,
                                          string_reverse(corrected.val),
                                          cfg.post_selection, cfg.simple, FALSE, 0)
         IN  IF v.exc # "none" THEN [acc EXCEPT !.exc = v.exc]
             ELSE [acc EXCEPT !.count_valid = @ + v.valid,
                              !.count_invalid = @ + v.invalid,
                              !.count_outside_codeword = @ + v.outside_codeword]

\* the body of the for loop over counts.items()
FTEntry(acc, string, value, cfg) ==
    LET total_keys == FTTotalKeys(cfg)
        words == Split(string)
        qubit_strings == SubSeq(words, 1, total_keys)
        data_string == At(qubit_strings, cfg.data_start)
        accepted_now == acc.data_accepted + value
    IN
    IF acc.exc # "none" THEN acc
    ELSE IF Len(words) < total_keys \/ cfg.data_start >= total_keys
            \/ cfg.data_meas_start + cfg.data_meas_repeats > total_keys
    THEN [acc EXCEPT !.exc = "IndexError"]
    ELSE IF cfg.data_meas_repeats \notin {0, 3}
    THEN [acc EXCEPT !.exc = "Exception"]
    ELSE IF ~FTDataOK(qubit_strings, cfg)
    THEN [acc EXCEPT !.data_rejected = @ + value]
    ELSE IF cfg.ancilla_qubits = 0
    THEN FTValidate([acc EXCEPT !.data_accepted = accepted_now,
                                !.ancilla_accepted = accepted_now,
                                !.ancilla_rejected = 0],
                    Ok(data_string), value, cfg)
    ELSE IF cfg.ancilla_qubits = 1
    THEN IF cfg.ancilla_meas_repeats # 1
         THEN [acc EXCEPT !.exc = "Exception"]
         ELSE FTValidate([acc EXCEPT !.data_accepted = accepted_now,
                                     !.ancilla_accepted = accepted_now,
                                     !.ancilla_rejected = 0],
                         correct_qubit(data_string,
                                       At(qubit_strings, cfg.ancilla_start),
                                       cfg.data_qubits),
                         value, cfg)
    ELSE IF cfg.ancilla_qubits = 3
    THEN IF FTFirst(cfg.ancilla_types - 1, cfg.ancilla_meas_repeats - 1, cfg) + 2
                >= total_keys
            \/ \E j \in cfg.ancilla_qubits..(cfg.ancilla_meas_repeats - 1) :
                    FTTripleOK(qubit_strings, FTFirst(0, j, cfg), cfg)   \* X[j]
         THEN [acc EXCEPT !.exc = "IndexError"]
         ELSE IF FTCountAncillaOK(qubit_strings, cfg)
                    = cfg.ancilla_qubits * cfg.ancilla_types
         THEN FTValidate([acc EXCEPT !.data_accepted = accepted_now,
                                     !.ancilla_accepted = @ + value],
                         correct_qubit(data_string,
                                       FTX(qubit_strings, 0, cfg)
                                         \o FTX(qubit_strings, 1, cfg)
                                         \o FTX(qubit_strings, 2, cfg),
                                       cfg.data_qubits),
                         value, cfg)
         ELSE [acc EXCEPT !.data_accepted = accepted_now,
                          !.ancilla_rejected = @ + value]
    ELSE [acc EXCEPT !.exc = "Exception"]

\* a loop that keeps the counters of the last entry only
FTLoop_last_entry_only(acc, counts, cfg) ==
    IF counts = <<>> THEN acc
    ELSE FTEntry(acc, counts[Len(counts)][1], counts[Len(counts)][2], cfg)

\* the whole loop: the local counters after every entry of counts
RECURSIVE FTLoop(_, _, _)
FTLoop(acc, counts, cfg) ==
    IF counts = <<>> THEN acc
    ELSE FTLoop(FTEntry(acc, counts[1][1], counts[1][2], cfg), Tail(counts), cfg)

\* error_rate computed on the strings that passed the data stage
FTErrorRate_data_accepted(acc) ==
    IF acc.data_accepted # 0
    THEN [num |-> acc.count_invalid, den |-> acc.data_accepted]
    ELSE [num |-> 0, den |-> 1]

\* error_rate as the fraction num / den; the literal 0 is 0 / 1
FTErrorRate(acc) ==
    IF acc.ancilla_accepted # 0
    THEN [num |-> acc.count_invalid, den |-> acc.ancilla_accepted]
    ELSE [num |-> 0, den |-> 1]

\* a return whose rejected leaves out the strings rejected on the ancilla
FTReturn_data_rejected_only(acc) ==
    IF acc.exc # "none" THEN [exc |-> acc.exc]
    ELSE [exc |-> "none",
          error_rate |-> FTErrorRate(acc),
          rejected |-> acc.data_rejected,
          accepted |-> acc.ancilla_accepted,
          count_valid |-> acc.count_valid,
          count_invalid |-> acc.count_invalid,
          printed |-> [data_rejected |-> acc.data_rejected,
                       data_accepted |-> acc.data_accepted,
                       ancilla_rejected |-> acc.ancilla_rejected,
                       ancilla_accepted |-> acc.ancilla_accepted,
                       count_outside_codeword |-> acc.count_outside_codeword]]

\* what process_FT_results returns, with the counters verbose = True prints
FTReturn(acc) ==
    IF acc.exc # "none" THEN [exc |-> acc.exc]
    ELSE [exc |-> "none",
          error_rate |-> FTErrorRate(acc),
          rejected |-> acc.data_rejected + acc.ancilla_rejected,
          accepted |-> acc.ancilla_accepted,
          count_valid |-> acc.count_valid,
          count_invalid |-> acc.count_invalid,
          printed |-> [data_rejected |-> acc.data_rejected,
                       data_accepted |-> acc.data_accepted,
                       ancilla_rejected |-> acc.ancilla_rejected,
                       ancilla_accepted |-> acc.ancilla_accepted,
                       count_outside_codeword |-> acc.count_outside_codeword]]

process_FT_results(counts, cfg) == FTReturn(FTLoop(FTZero, counts, cfg))

(***************************************************************************)
(* SpecSoftware: one call of a bit-string helper on drawn arguments.       *)
(***************************************************************************)
InitSoftware ==
    /\ pc = "call"
    /\ args \in [fn : {"correct_qubit"},
                 data_in : SeqsOfLen(BitChars, DATA_QUBITS),
                 ancilla : SeqsOfLen(BitChars, 3)]
    /\ ret = NoValue
    /\ stage = "unused"
    /\ circuit = <<>>
    /\ qstate = <<>>

CallCorrectQubit ==
    /\ pc = "call"
    /\ args.fn = "correct_qubit"
    /\ ret' = correct_qubit(args.data_in, args.ancilla, DATA_QUBITS)
    /\ pc' = "done"
    /\ UNCHANGED <<args, stage, circuit, qstate>>

NextSoftware == CallCorrectQubit

SpecSoftware == InitSoftware /\ [][NextSoftware]_vars

(***************************************************************************)
(* C2: software correction restores the codeword.  For every Steane        *)
(* logical-zero codeword c and data qubit i, correct_qubit on the measured *)
(* (reversed) string of c with bit i flipped and the measured syndrome     *)
(* string H[2][i] H[1][i] H[0][i] returns exactly the reversed string of c.*)
(***************************************************************************)
SyndromeString(i) ==
    << get_parity_check_matrix[3][i + 1],
       get_parity_check_matrix[2][i + 1],
       get_parity_check_matrix[1][i + 1] >>

IsC2Case(c, i) ==
    /\ args.fn = "correct_qubit"
    /\ args.data_in = string_reverse(FlipAt(get_codewords[c], i))
    /\ args.ancilla = SyndromeString(i)

C2_SoftwareCorrectionRestores ==
    \A c \in 1..Len(get_codewords) : \A i \in 0..(DATA_QUBITS - 1) :
        (pc = "done" /\ IsC2Case(c, i)) => ret = Ok(string_reverse(get_codewords[c]))

C2_Witness ==
    /\ pc = "done"
    /\ IsC2Case(7, 4)
    /\ ret = Ok(string_reverse(get_codewords[7]))

(***************************************************************************)
(* SpecFT: one call of process_FT_results on a drawn histogram and a drawn *)
(* set of keyword arguments.                                               *)
(***************************************************************************)
MaxEntries == 2     \* entries of a histogram
MaxCount == 2       \* largest count of one entry

Zeros(n) == [k \in 1..n |-> "0"]
Ones(n) == [k \in 1..n |-> "1"]
Triple(seg) == <<seg, seg, seg>>

\* keyword arguments: the layout puts the ancilla segments first, then the
\* data measurement segments, then the data string (as the tests do)
FTConfig(aq, amr, dmr, post_selection, simple, scheme) ==
    [codewords |-> IF simple THEN << <<"0">> >> ELSE get_codewords,
     data_meas_strings |-> IF scheme = "B" THEN get_codewords ELSE << <<"0">> >>,
     anc_zero |-> <<"0">>, anc_one |-> <<"1">>,
     data_qubits |-> DATA_QUBITS,
     ancilla_start |-> 0,
     data_meas_start |-> 2 * aq * amr,
     data_start |-> 2 * aq * amr + dmr,
     ancilla_types |-> 2, ancilla_qubits |-> aq, ancilla_meas_repeats |-> amr,
     data_meas_qubits |-> IF dmr = 0 THEN 0 ELSE 1,
     data_meas_repeats |-> dmr,
     post_selection |-> post_selection, simple |-> simple]

FTConfigs ==
    {FTConfig(aq, IF aq = 3 THEN 3 ELSE 1, dmr, m[1], m[2], "C") :
        aq \in {0, 1, 3}, dmr \in {0, 3}, m \in BOOLEAN \X BOOLEAN}
    \cup {FTConfig(0, 1, 3, ps, FALSE, "B") : ps \in BOOLEAN}
    \cup {FTConfig(3, 1, 0, FALSE, FALSE, "C")}

\* measured data strings, as printed (last qubit first)
FTDataPatterns ==
    << Zeros(7),                                  \* 1: codeword
       <<"0","0","0","0","0","0","1">>,           \* 2: qubit 0 flipped
       Ones(7),                                   \* 3: logical one
       <<"1","1","1","1","0","0","0">>,           \* 4: codeword 0001111
       <<"0","0","0","0","0","1","1">> >>         \* 5: qubits 0 and 1 flipped

\* ancilla segments, X type first
FTAncillaPatterns(cfg) ==
    LET z == cfg.anc_zero
        o == cfg.anc_one
        zero9 == Triple(z) \o Triple(z) \o Triple(z)
    IN  IF cfg.ancilla_qubits = 0 THEN << <<>> >>
        ELSE IF cfg.ancilla_qubits = 1
        THEN << <<Zeros(3), Zeros(3)>>,
                << <<"1","0","0">>, Zeros(3)>> >>
        ELSE IF cfg.ancilla_meas_repeats = 1
        THEN << Triple(z) \o Triple(z),
                Triple(o) \o Triple(z) >>
        ELSE << zero9 \o zero9,                                    \* 1
                Triple(o) \o Triple(z) \o Triple(z) \o zero9,      \* 2: qubit 0
                <<o, z, o>> \o Triple(z) \o Triple(z) \o zero9,    \* 3: X disagree
                Triple(z) \o Triple(<<"1","1">>) \o Triple(z) \o zero9, \* 4
                zero9 \o <<o, z, z>> \o Triple(z) \o Triple(z),    \* 5: Z disagree
                zero9 \o Triple(o) \o Triple(z) \o Triple(z) >>    \* 6: Z qubit 0

\* data measurement segments
FTMeasPatterns(cfg) ==
    LET cw(k) == string_reverse(get_codewords[k])
    IN  IF cfg.data_meas_repeats = 0 THEN << <<>> >>
        ELSE IF cfg.data_meas_strings = get_codewords
        THEN << Triple(cw(5)),
                <<cw(5), cw(6), cw(3)>>,
                <<cw(5), cw(5), FTDataPatterns[2]>>,
                Triple(FTDataPatterns[2]) >>
        ELSE << Triple(<<"0">>),
                << <<"0">>, <<"0">>, <<"1">> >>,
                Triple(<<"1">>) >>

\* the keys a histogram is drawn from: <<ancilla, measurement, data>> patterns
FTPoolIndex(cfg) ==
    IF cfg.ancilla_qubits = 0
    THEN IF cfg.data_meas_repeats = 0
         THEN << <<1,1,1>>, <<1,1,2>>, <<1,1,3>>, <<1,1,4>>, <<1,1,5>> >>
         ELSE IF cfg.data_meas_strings = get_codewords
         THEN << <<1,1,1>>, <<1,2,4>>, <<1,2,2>>, <<1,3,1>>, <<1,4,1>>, <<1,1,5>> >>
         ELSE << <<1,1,1>>, <<1,1,2>>, <<1,1,4>>, <<1,1,5>>, <<1,2,1>>, <<1,3,3>> >>
    ELSE IF cfg.ancilla_qubits = 1
    THEN IF cfg.data_meas_repeats = 0
         THEN << <<1,1,1>>, <<2,1,2>>, <<1,1,2>>, <<2,1,1>>, <<1,1,3>>, <<1,1,5>> >>
         ELSE << <<1,1,1>>, <<2,1,2>>, <<1,1,2>>, <<1,2,1>>, <<2,3,2>>, <<1,1,3>> >>
    ELSE IF cfg.ancilla_meas_repeats = 1
    THEN << <<1,1,1>>, <<2,1,1>>, <<2,1,2>> >>
    ELSE IF cfg.data_meas_repeats = 0
    THEN << <<1,1,1>>, <<2,1,2>>, <<1,1,2>>, <<3,1,1>>, <<4,1,1>>, <<5,1,2>>,
            <<6,1,3>> >>
    ELSE << <<1,1,1>>, <<2,1,2>>, <<1,1,2>>, <<3,1,1>>, <<5,1,1>>, <<1,2,1>>,
            <<6,1,2>> >>

FTPool(cfg) ==
    LET index == FTPoolIndex(cfg)
    IN  [k \in 1..Len(index) |->
            Join(FTAncillaPatterns(cfg)[index[k][1]]
                 \o FTMeasPatterns(cfg)[index[k][2]]
                 \o <<FTDataPatterns[index[k][3]]>>)]

\* the members of the set of numbers S in increasing order
RECURSIVE SortedSeq(_)
SortedSeq(S) ==
    IF S = {} THEN <<>>
    ELSE <<MinOf(S)>> \o SortedSeq(S \ {MinOf(S)})

\* the histograms over pool: at most MaxEntries distinct keys, counts 1..MaxCount
FTHistogramsOver(pool, S) ==
    {[k \in 1..Len(SortedSeq(S)) |-> <<pool[SortedSeq(S)[k]], f[SortedSeq(S)[k]]>>] :
        f \in [S -> 1..MaxCount]}

FTHistograms(pool) ==
    UNION {FTHistogramsOver(pool, S) :
              S \in {T \in SUBSET (1..Len(pool)) : Cardinality(T) <= MaxEntries}}

InitFT ==
    /\ pc = "call"
    /\ \E cfg \in FTConfigs : \E counts \in FTHistograms(FTPool(cfg)) :
           args = [fn |-> "process_FT_results", counts |-> counts, cfg |-> cfg]
    /\ ret = NoValue
    /\ stage = "unused"
    /\ circuit = <<>>
    /\ qstate = <<>>

CallProcessFTResults ==
    /\ pc = "call"
    /\ args.fn = "process_FT_results"
    /\ ret' = process_FT_results(args.counts, args.cfg)
    /\ pc' = "done"
    /\ UNCHANGED <<args, stage, circuit, qstate>>

NextFT == CallProcessFTResults

SpecFT == InitFT /\ [][NextFT]_vars

(***************************************************************************)
(* Vocabulary for the properties of process_FT_results                     *)
(***************************************************************************)
FTCall == pc = "done" /\ args.fn = "process_FT_results"

FTReturned == FTCall /\ ret.exc = "none"

\* the sum of the counts of the histogram entries whose key satisfies P
SumWhere(counts, P(_)) ==
    SumSeq([k \in 1..Len(counts) |-> IF P(counts[k][1]) THEN counts[k][2] ELSE 0])

\* the sum of all histogram counts
TotalShots(counts) == SumSeq([k \in 1..Len(counts) |-> counts[k][2]])

\* the space-separated segment of key at 0-based position p
Segment(key, p) == Split(key)[p + 1]

\* the three repeated data measurement segments of key
MeasSegments(key) ==
    [r \in 1..3 |-> Segment(key, args.cfg.data_meas_start + r - 1)]

(***************************************************************************)
(* C6: with data_meas_repeats = 3 an entry is accepted at the data         *)
(* measurement stage only if each of its three data measurement segments,  *)
(* reversed, is a member of data_meas_strings (the segments need not agree *)
(* with each other); with data_meas_repeats = 0 every entry is accepted at *)
(* that stage.                                                             *)
(***************************************************************************)
C6SegmentsAgree(key) ==
    MeasSegments(key)[1] = MeasSegments(key)[2]
        /\ MeasSegments(key)[2] = MeasSegments(key)[3]

C6SegmentsAllowed(key) ==
    \A r \in 1..3 :
        InList(string_reverse(MeasSegments(key)[r]), args.cfg.data_meas_strings)

C6_DataStageNeedsAllowedSegments ==
    FTReturned =>
        /\ args.cfg.data_meas_repeats = 3 =>
              ret.printed.data_accepted <= SumWhere(args.counts, C6SegmentsAllowed)
        /\ args.cfg.data_meas_repeats = 0 =>
              ret.printed.data_accepted = TotalShots(args.counts)

\* C6 as written: with three repeats only entries whose three segments agree
\* exactly with each other are accepted at the data measurement stage
C6_AsWritten ==
    FTReturned =>
        /\ args.cfg.data_meas_repeats = 3 =>
              ret.printed.data_accepted <= SumWhere(args.counts, C6SegmentsAgree)
        /\ args.cfg.data_meas_repeats = 0 =>
              ret.printed.data_accepted = TotalShots(args.counts)

\* C6 witness: an entry with three different allowed segments was accepted
C6_Witness ==
    /\ FTReturned
    /\ args.cfg.data_meas_repeats = 3
    /\ Len(args.counts) = 1
    /\ ~C6SegmentsAgree(args.counts[1][1])
    /\ C6SegmentsAllowed(args.counts[1][1])
    /\ ret.printed.data_accepted = args.counts[1][2]

(***************************************************************************)
(* C7: with data_meas_repeats = 3 and no ancilla an entry passes the data  *)
(* measurement stage iff the segments at data_meas_start, +1 and +2 are,   *)
(* reversed, members of data_meas_strings; the count of an entry that does *)
(* not pass goes to rejected only; an entry that passes is valid or        *)
(* invalid according to whether the reversed segment at data_start is a    *)
(* codeword.                                                               *)
(***************************************************************************)
C7Case ==
    /\ FTCall
    /\ args.cfg.data_meas_repeats = 3
    /\ args.cfg.ancilla_qubits = 0
    /\ ~args.cfg.post_selection
    /\ ~args.cfg.simple

C7Passes(key) ==
    \A p \in {args.cfg.data_meas_start, args.cfg.data_meas_start + 1,
              args.cfg.data_meas_start + 2} :
        InList(string_reverse(Segment(key, p)), args.cfg.data_meas_strings)

C7DataIsCodeword(key) ==
    InList(string_reverse(Segment(key, args.cfg.data_start)), args.cfg.codewords)

C7PassesValid(key) == C7Passes(key) /\ C7DataIsCodeword(key)
C7PassesInvalid(key) == C7Passes(key) /\ ~C7DataIsCodeword(key)
C7Fails(key) == ~C7Passes(key)

C7_DataStageNoAncilla ==
    C7Case =>
        /\ ret.exc = "none"
        /\ ret.accepted = SumWhere(args.counts, C7Passes)
        /\ ret.rejected = SumWhere(args.counts, C7Fails)
        /\ ret.count_valid = SumWhere(args.counts, C7PassesValid)
        /\ ret.count_invalid = SumWhere(args.counts, C7PassesInvalid)

\* C7 witness: one entry was rejected and one passed and was found valid
C7_Witness ==
    /\ C7Case
    /\ ret.rejected > 0
    /\ ret.count_valid > 0
    /\ ret.count_invalid = 0

(***************************************************************************)
(* C8: whenever process_FT_results returns, rejected + accepted is the sum *)
(* of all histogram counts; accepted = valid + invalid when post_selection *)
(* is off, and with post_selection on accepted = valid + invalid + the     *)
(* count of strings outside both logical codeword sets.                    *)
(***************************************************************************)
C8_CountersPartitionShots ==
    FTReturned =>
        /\ ret.rejected + ret.accepted = TotalShots(args.counts)
        /\ ret.accepted = ret.count_valid + ret.count_invalid
                              + ret.printed.count_outside_codeword
        /\ ~args.cfg.post_selection => ret.printed.count_outside_codeword = 0

\* C8 as written: rejected + accepted is the sum of the counts and
\* accepted = valid + invalid for every setting of post_selection and simple
C8_AsWritten ==
    FTReturned =>
        /\ ret.rejected + ret.accepted = TotalShots(args.counts)
        /\ ret.accepted = ret.count_valid + ret.count_invalid

\* C8 witness: with post_selection an accepted string was outside the
\* codeword sets and another entry was rejected
C8_Witness ==
    /\ FTReturned
    /\ args.cfg.post_selection
    /\ ret.printed.count_outside_codeword > 0
    /\ ret.rejected > 0
    /\ ret.accepted > ret.count_valid + ret.count_invalid

(***************************************************************************)
(* C9: with ancilla_qubits = 3 and ancilla_meas_repeats = 3 a data         *)
(* accepted entry is ancilla accepted iff each of the ancilla_types x 3    *)
(* ancilla qubits has three identical readings equal to anc_zero or        *)
(* anc_one; the syndrome is formed from the three ancilla qubits of the    *)
(* first type, the data string is corrected by correct_qubit with it and   *)
(* the corrected string is classified; otherwise the count is rejected.    *)
(***************************************************************************)
C9Case ==
    /\ FTCall
    /\ args.cfg.ancilla_qubits = 3
    /\ args.cfg.ancilla_meas_repeats = 3

\* reading r of ancilla qubit q of ancilla type t (all 0-based), in the
\* list segments of the space-separated segments of a key
C9Reading(segments, t, q, r) == segments[args.cfg.ancilla_start + t * 9 + q * 3 + r + 1]

C9AncillaQubitOK(segments, t, q) ==
    /\ C9Reading(segments, t, q, 0) = C9Reading(segments, t, q, 1)
    /\ C9Reading(segments, t, q, 1) = C9Reading(segments, t, q, 2)
    /\ C9Reading(segments, t, q, 0) \in {args.cfg.anc_zero, args.cfg.anc_one}

C9SegmentsDataAccepted(segments) ==
    args.cfg.data_meas_repeats = 3 =>
        \A r \in 0..2 :
            InList(string_reverse(segments[args.cfg.data_meas_start + r + 1]),
                   args.cfg.data_meas_strings)

C9SegmentsAccepted(segments) ==
    /\ C9SegmentsDataAccepted(segments)
    /\ \A t \in 0..(args.cfg.ancilla_types - 1) : \A q \in 0..2 :
           C9AncillaQubitOK(segments, t, q)

C9SegmentsSyndrome(segments) ==
    [q \in 1..3 |-> IF C9Reading(segments, 0, q - 1, 0) = args.cfg.anc_zero
                    THEN "0" ELSE "1"]

C9SegmentsCorrectedIsCodeword(segments) ==
    InList(string_reverse(correct_qubit(segments[args.cfg.data_start + 1],
                                        C9SegmentsSyndrome(segments),
                                        args.cfg.data_qubits).val),
           args.cfg.codewords)

C9DataAccepted(key) == C9SegmentsDataAccepted(Split(key))
C9Accepted(key) == C9SegmentsAccepted(Split(key))
C9Rejected(key) == ~C9Accepted(key)
C9Syndrome(key) == C9SegmentsSyndrome(Split(key))

C9AcceptedValid(key) ==
    LET segments == Split(key)
    IN  C9SegmentsAccepted(segments) /\ C9SegmentsCorrectedIsCodeword(segments)

C9AcceptedInvalid(key) ==
    LET segments == Split(key)
    IN  C9SegmentsAccepted(segments) /\ ~C9SegmentsCorrectedIsCodeword(segments)

C10NoEntryPasses ==
    /\ args.cfg.data_meas_repeats = 3
    /\ \A k \in 1..Len(args.counts) : ~C6SegmentsAllowed(args.counts[k][1])

C10_ErrorRate ==
    FTCall =>
        /\ (ret.exc = "none" /\ ret.accepted # 0) =>
              /\ ret.error_rate.den # 0
              /\ ret.error_rate.num * ret.accepted
                     = ret.count_invalid * ret.error_rate.den
        /\ (ret.exc = "none" /\ ret.accepted = 0) =>
              /\ ret.error_rate.den # 0
              /\ ret.error_rate.num = 0
        /\ C10NoEntryPasses =>
              /\ ret.exc = "none"
              /\ ret.accepted = 0
              /\ ret.rejected = TotalShots(args.counts)

\* C10 witness: every shot was rejected and the call returned error_rate 0
C10_Witness ==
    /\ FTReturned
    /\ TotalShots(args.counts) > 0
    /\ ret.accepted = 0
    /\ ret.error_rate.num = 0
    /\ ret.rejected = TotalShots(args.counts)

(***************************************************************************)
(* circuits.py: SteaneCodeLogicalQubit.__init__ and validate_parity_matrix *)
(***************************************************************************)
\* the first entry of a list of outcomes that is not "none"
RECURSIVE FirstError(_)
FirstError(outcomes) ==
    IF outcomes = <<>> THEN "none"
    ELSE IF outcomes[1] # "none" THEN outcomes[1]
    ELSE FirstError(Tail(outcomes))

\* exclusive or of a list of booleans, starting from False
RECURSIVE XorAll(_)
XorAll(bools) ==
    IF bools = <<>> THEN FALSE
    ELSE XorAll(SubSeq(bools, 1, Len(bools) - 1)) # bools[Len(bools)]

IsBitChar(c) == c \in {"0", "1"}

\* bit_store after the two nested loops over the characters of one codeword
\* and one parity row (both made of '0' and '1')
bit_store(codeword_string, parity_string) ==
    XorAll(ConcatAll([c \in 1..Len(codeword_string) |->
               [b \in 1..Len(parity_string) |->
                   (codeword_string[c] = "1") # (parity_string[b] = "1")]]))

\* the outcome of lines 244-253 for one codeword and one parity row
ValidatePair(codeword_string, parity_string) ==
    LET bad_codeword == {c \in 1..Len(codeword_string) : ~IsBitChar(codeword_string[c])}
        bad_parity == {b \in 1..Len(parity_string) : ~IsBitChar(parity_string[b])}
    IN  IF codeword_string = <<>> THEN "none"
        ELSE IF ~IsBitChar(codeword_string[1])
        THEN "Code word entries must be 0 or 1"
        ELSE IF bad_parity # {}
        THEN "Parity matrix entries must be 0 or 1"
        ELSE IF bad_codeword # {}
        THEN "Code word entries must be 0 or 1"
        ELSE IF bit_store(codeword_string, parity_string)
        THEN "Code word rows must be orthogonal to the parity matrix"
        ELSE "none"

\* the outcome of the loop body of line 240 for one codeword
ValidateCodeword(codeword_string, parity_check_matrix, num_data) ==
    IF Len(codeword_string) # num_data THEN "Code word rows incorrect length"
    ELSE FirstError([r \in 1..Len(parity_check_matrix) |->
                        ValidatePair(codeword_string, parity_check_matrix[r])])

\* validate_parity_matrix(): "none", or the message of the ValueError raised
validate_parity_matrix(parity_check_matrix, codewords, num_data, num_ancilla, ancilla) ==
    IF parity_check_matrix = <<>> THEN "Parity check matrix must be specified"
    ELSE IF \E r \in 1..Len(parity_check_matrix) : Len(parity_check_matrix[r]) # num_data
    THEN "Parity check matrix rows incorrect length"
    ELSE IF ancilla /\ Len(parity_check_matrix) # num_ancilla
    THEN "Parity check matrix has incorrect number of rows"
    ELSE FirstError([k \in 1..Len(codewords) |->
                        ValidateCodeword(codewords[k], parity_check_matrix, num_data)])

\* SteaneCodeLogicalQubit(d, parity_check_matrix, codewords, ancilla) with the
\* other keyword arguments left at their defaults and d = 1
SteaneCodeLogicalQubit(parity_check_matrix, codewords, ancilla) ==
    IF parity_check_matrix = <<>> THEN [exc |-> "IndexError"]
    ELSE [exc |-> validate_parity_matrix(parity_check_matrix, codewords,
                                         Len(parity_check_matrix[1]),
                                         Len(parity_check_matrix), ancilla)]

(***************************************************************************)
(* SpecValidate: one construction on a drawn parity matrix and codewords.  *)
(***************************************************************************)
ValWidth == 3       \* characters of a parity row
ValRows == 2        \* rows of a parity matrix

\* the strings rows and codewords are drawn from: the bit strings of the
\* width, one shorter string and one string with a character that is no bit
ValStrings ==
    SeqsOfLen(BitChars, ValWidth)
        \cup {Zeros(ValWidth - 1), [k \in 1..ValWidth |-> IF k = 2 THEN "2" ELSE "1"]}

ValMatrices == UNION {SeqsOfLen(ValStrings, n) : n \in 1..ValRows}

\* one codeword, alone or after the all-zero codeword
ValCodewords ==
    {<<c>> : c \in ValStrings} \cup {<<Zeros(ValWidth), c>> : c \in ValStrings}

InitValidate ==
    /\ pc = "call"
    /\ args \in [fn : {"SteaneCodeLogicalQubit"},
                 parity_check_matrix : ValMatrices,
                 codewords : ValCodewords,
                 ancilla : BOOLEAN]
    /\ ret = NoValue
    /\ stage = "unused"
    /\ circuit = <<>>
    /\ qstate = <<>>

Construct ==
    /\ pc = "call"
    /\ args.fn = "SteaneCodeLogicalQubit"
    /\ ret' = SteaneCodeLogicalQubit(args.parity_check_matrix, args.codewords,
                                     args.ancilla)
    /\ pc' = "done"
    /\ UNCHANGED <<args, stage, circuit, qstate>>

NextValidate == Construct

SpecValidate == InitValidate /\ [][NextValidate]_vars

(***************************************************************************)
(* C4: construction succeeds only if every row of the parity matrix has    *)
(* mod-2 inner product 0 with every codeword, and a (row, codeword) pair   *)
(* with inner product 1 raises the orthogonality error.                    *)
(***************************************************************************)
\* XOR over the positions of the AND of the row bit and the codeword bit
InnerProduct(parity_string, codeword_string) ==
    SumSeq([k \in 1..Len(parity_string) |->
               IF parity_string[k] = "1" /\ codeword_string[k] = "1" THEN 1 ELSE 0]) % 2

\* the drawn rows and codewords are bit strings of one length
C4WellFormed ==
    /\ \A r \in 1..Len(args.parity_check_matrix) :
           args.parity_check_matrix[r] \in SeqsOfLen(BitChars, ValWidth)
    /\ \A k \in 1..Len(args.codewords) :
           args.codewords[k] \in SeqsOfLen(BitChars, ValWidth)

C4AllOrthogonal ==
    \A r \in 1..Len(args.parity_check_matrix) : \A k \in 1..Len(args.codewords) :
        InnerProduct(args.parity_check_matrix[r], args.codewords[k]) = 0

C4_OrthogonalityValidated ==
    (pc = "done" /\ args.fn = "SteaneCodeLogicalQubit" /\ C4WellFormed) =>
        /\ ret.exc = "none" => C4AllOrthogonal
        /\ ~C4AllOrthogonal =>
              ret.exc = "Code word rows must be orthogonal to the parity matrix"

(***************************************************************************)
(* circuits.py: the gate lists of set_up_logical_zero and decode.          *)
(*                                                                         *)
(* A gate is a record [op, qs]: the operation and the qubits it acts on.   *)
(* The qubits of the circuit are numbered in the order of the registers:   *)
(* data 0..num_data-1, then the X ancilla, the Z ancilla, the extra ones.  *)
(***************************************************************************)
Gate(op, qs) == [op |-> op, qs |-> qs]

\* the greatest member of a non-empty set of numbers
MaxOf(S) == CHOOSE x \in S : \A y \in S : y <= x

\* a local variable that was never assigned
Unbound == -1

\* parity_matrix_totals: the number of ones in each column of the matrix
parity_matrix_totals(parity_check_matrix) ==
    [k \in 1..Len(parity_check_matrix[1]) |->
        Cardinality({r \in 1..Len(parity_check_matrix) : parity_check_matrix[r][k] = "1"})]

\* the 0-based columns of total 1 that row r (1-based) has a one in
SupportBits(parity_check_matrix, r) ==
    {b \in 0..(Len(parity_check_matrix[1]) - 1) :
        /\ parity_matrix_totals(parity_check_matrix)[b + 1] = 1
        /\ parity_check_matrix[r][b + 1] = "1"}

\* h_qubit1 or h_qubit2 after the loop over bit_index for row r, when it
\* held the value before: the last support bit of the row if it has one
HQubitAfter(parity_check_matrix, r, before) ==
    IF SupportBits(parity_check_matrix, r) = {} THEN before
    ELSE MaxOf(SupportBits(parity_check_matrix, r))

\* h_qubit1 during the iteration column_index1 = c1 (0-based)
RECURSIVE HQubit1(_, _)
HQubit1(parity_check_matrix, c1) ==
    HQubitAfter(parity_check_matrix, c1 + 1,
                IF c1 = 0 THEN Unbound ELSE HQubit1(parity_check_matrix, c1 - 1))

\* the pairs <<column_index1, column_index2>> in the order the loops visit them
RowPairs(num_ancilla) ==
    ConcatAll([c1 \in 1..num_ancilla |->
                  [k \in 1..(num_ancilla - c1) |-> <<c1 - 1, c1 - 1 + k>>]])

\* h_qubit2, duplicate_entries and a raised error after the first k pairs
RECURSIVE DuplicateScan(_, _)
DuplicateScan(parity_check_matrix, k) ==
    IF k = 0
    THEN [h_qubit2 |-> Unbound, duplicate_entries |-> <<>>, exc |-> "none"]
    ELSE LET before == DuplicateScan(parity_check_matrix, k - 1)
             pair == RowPairs(Len(parity_check_matrix))[k]
             parity_row1 == parity_check_matrix[pair[1] + 1]
             parity_row2 == parity_check_matrix[pair[2] + 1]
             h_qubit1 == HQubit1(parity_check_matrix, pair[1])
             h_qubit2 == HQubitAfter(parity_check_matrix, pair[2] + 1, before.h_qubit2)
             h_qubit_start == Max2(h_qubit1, h_qubit2)
             found == SelectSeq(Range(h_qubit_start + 1, Len(parity_check_matrix[1])),
                                LAMBDA b : parity_row1[b + 1] = "1"
                                            /\ parity_row2[b + 1] = "1")
         IN  IF before.exc # "none" THEN before
             ELSE IF h_qubit1 = Unbound \/ h_qubit2 = Unbound
             THEN [before EXCEPT !.exc = "UnboundLocalError"]
             ELSE [h_qubit2 |-> h_qubit2,
                   duplicate_entries |->
                       before.duplicate_entries
                           \o [n \in 1..Len(found) |->
                                  << <<h_qubit1, found[n]>>, <<h_qubit2, found[n]>> >>],
                   exc |-> "none"]

\* duplicate_entries of the whole matrix (lines 284-300 and 789-805)
FindDuplicates(parity_check_matrix) ==
    DuplicateScan(parity_check_matrix, Len(RowPairs(Len(parity_check_matrix))))

\* cx_gates: for every column of total 1, in order, the pairs
\* <<column, other column>> of the row that holds its one
cx_gates(parity_check_matrix) ==
    LET num_data == Len(parity_check_matrix[1])
        totals == parity_matrix_totals(parity_check_matrix)
        from(index, parity_row) ==
            IF parity_row[index + 1] = "1"
            THEN LET columns == SelectSeq(Range(0, num_data),
                                   LAMBDA c : c # index /\ parity_row[c + 1] = "1")
                 IN  [n \in 1..Len(columns) |-> <<index, columns[n]>>]
            ELSE <<>>
    IN  ConcatAll([k \in 1..num_data |->
            IF totals[k] = 1
            THEN ConcatAll([r \in 1..Len(parity_check_matrix) |->
                               from(k - 1, parity_check_matrix[r])])
            ELSE <<>>])

\* removed_gates and cx_gates_added after the first k pairs of duplicate_entries
RECURSIVE RemoveScan(_, _, _)
RemoveScan(duplicate_entries, gates, k) ==
    IF k = 0 THEN [removed_gates |-> <<>>, cx_gates_added |-> <<>>]
    ELSE LET before == RemoveScan(duplicate_entries, gates, k - 1)
             support == duplicate_entries[2 * k - 1]
             duplicates == duplicate_entries[2 * k]
         IN  IF /\ InList(duplicates[1], gates) /\ InList(duplicates[2], gates)
                /\ ~InList(duplicates[1], before.removed_gates)
                /\ ~InList(duplicates[2], before.removed_gates)
             THEN [removed_gates |-> before.removed_gates \o duplicates,
                   cx_gates_added |-> Append(before.cx_gates_added,
                                             <<support[1][2], duplicates[1][2]>>)]
             ELSE before

\* the cx gates for a list of <<control, target>> pairs of data qubits, up
\* to the first pair with control = target, on which cx() raises
CxUntilError(pairs) ==
    LET bad == {n \in 1..Len(pairs) : pairs[n][1] = pairs[n][2]}
        good == IF bad = {} THEN Len(pairs) ELSE MinOf(bad) - 1
    IN  [exc |-> IF bad = {} THEN "none" ELSE "CircuitError",
         gates |-> [n \in 1..good |-> Gate("cx", pairs[n])]]

\* what a method did to the circuit: the gates appended and the error raised
Emitted(exc, gates) == [exc |-> exc, gates |-> gates]

\* the <<control, target>> pairs the method emits: cx_gates without the
\* removed ones, and the added ones after them (encoding) or before (decoding)
EmittedPairs(parity_check_matrix, reduced, added_first) ==
    LET gates == cx_gates(parity_check_matrix)
        duplicate_entries == FindDuplicates(parity_check_matrix).duplicate_entries
        scan == IF reduced
                THEN RemoveScan(duplicate_entries, gates, Len(duplicate_entries) \div 2)
                ELSE RemoveScan(<<>>, gates, 0)
        kept == SelectSeq(gates, LAMBDA g : ~InList(g, scan.removed_gates))
    IN  IF added_first THEN scan.cx_gates_added \o kept
        ELSE kept \o scan.cx_gates_added

\* the error raised before any cx is emitted, or "none"
SynthesisError(parity_check_matrix, reduced) ==
    LET totals == parity_matrix_totals(parity_check_matrix)
        count == Cardinality({k \in 1..Len(totals) : totals[k] = 1})
    IN  IF reduced /\ FindDuplicates(parity_check_matrix).exc # "none"
        THEN FindDuplicates(parity_check_matrix).exc
        ELSE IF count # Len(parity_check_matrix)
        THEN "ValueError: parity matrix does not match the ancilla needed"
        ELSE IF reduced
                /\ Len(FindDuplicates(parity_check_matrix).duplicate_entries) % 2 # 0
        THEN "ValueError: expect an even number of entries in the duplicates"
        ELSE "none"

\* set_up_logical_zero(logical_qubit = 0, reduced) on an object built with
\* parity_check_matrix
set_up_logical_zero(parity_check_matrix, reduced) ==
    LET totals == parity_matrix_totals(parity_check_matrix)
        prepare == ConcatAll([k \in 1..Len(totals) |->
                      IF totals[k] = 1
                      THEN <<Gate("reset", <<k - 1>>), Gate("h", <<k - 1>>)>>
                      ELSE <<Gate("reset", <<k - 1>>)>>])
        error == SynthesisError(parity_check_matrix, reduced)
        cx == CxUntilError(EmittedPairs(parity_check_matrix, reduced, FALSE))
    IN  IF error = "UnboundLocalError" THEN Emitted(error, <<>>)
        ELSE IF error # "none" THEN Emitted(error, prepare)
        ELSE Emitted(cx.exc, prepare \o cx.gates)

\* decode that emits the added gates after the others, as the encoding does
decode_added_last(parity_check_matrix, reduced) ==
    LET totals == parity_matrix_totals(parity_check_matrix)
        hadamards == ConcatAll([k \in 1..Len(totals) |->
                        IF totals[k] = 1 THEN <<Gate("h", <<k - 1>>)>> ELSE <<>>])
        error == SynthesisError(parity_check_matrix, reduced)
        cx == CxUntilError(EmittedPairs(parity_check_matrix, reduced, FALSE))
    IN  IF error # "none" THEN Emitted(error, <<>>)
        ELSE IF cx.exc # "none" THEN Emitted(cx.exc, cx.gates)
        ELSE Emitted("none", cx.gates \o hadamards)

\* decode(logical_qubit = 0, reduced)
decode(parity_check_matrix, reduced) ==
    LET totals == parity_matrix_totals(parity_check_matrix)
        hadamards == ConcatAll([k \in 1..Len(totals) |->
                        IF totals[k] = 1 THEN <<Gate("h", <<k - 1>>)>> ELSE <<>>])
        error == SynthesisError(parity_check_matrix, reduced)
        cx == CxUntilError(EmittedPairs(parity_check_matrix, reduced, TRUE))
    IN  IF error # "none" THEN Emitted(error, <<>>)
        ELSE IF cx.exc # "none" THEN Emitted(cx.exc, cx.gates)
        ELSE Emitted("none", cx.gates \o hadamards)

\* the bit values (a list of 0 and 1, one per data qubit) after the cx
\* gates of a gate list have acted on the values bits, in order
RECURSIVE RunCX(_, _)
RunCX(gates, bits) ==
    IF gates = <<>> THEN bits
    ELSE LET g == gates[1]
             after == IF g.op = "cx"
                      THEN [bits EXCEPT ![g.qs[2] + 1] = (@ + bits[g.qs[1] + 1]) % 2]
                      ELSE bits
         IN  RunCX(Tail(gates), after)

(***************************************************************************)
(* SpecZero: one call of set_up_logical_zero on an object built with a     *)
(* drawn parity matrix.  The rows are bit strings of even, non-zero        *)
(* weight, as the rows of a parity matrix that are codewords themselves.   *)
(***************************************************************************)
ZeroWidth == 6      \* data qubits of the drawn matrices

ZeroRowStrings ==
    {row \in SeqsOfLen(BitChars, ZeroWidth) :
        /\ \E k \in 1..ZeroWidth : row[k] = "1"
        /\ Cardinality({k \in 1..ZeroWidth : row[k] = "1"}) % 2 = 0}

\* as many rows as the Steane parity matrix has
ZeroMatrices == SeqsOfLen(ZeroRowStrings, Len(get_parity_check_matrix))

InitZero ==
    /\ pc = "call"
    /\ args \in [fn : {"set_up_logical_zero"},
                 parity_check_matrix : ZeroMatrices,
                 reduced : BOOLEAN]
    /\ ret = NoValue
    /\ stage = "unused"
    /\ circuit = <<>>
    /\ qstate = <<>>

CallSetUpLogicalZero ==
    /\ pc = "call"
    /\ args.fn = "set_up_logical_zero"
    /\ ret' = set_up_logical_zero(args.parity_check_matrix, args.reduced)
    /\ pc' = "done"
    /\ UNCHANGED <<args, stage, circuit, qstate>>

NextZero == CallSetUpLogicalZero

SpecZero == InitZero /\ [][NextZero]_vars

(***************************************************************************)
(* C5: the redundant-gate elimination never alters the prepared state: for *)
(* every parity matrix on which set_up_logical_zero completes for both     *)
(* settings of reduced and every assignment of values to the support       *)
(* (weight-1) data qubits, the values of all data qubits after the cx      *)
(* sequence emitted with reduced = True equal those after the sequence     *)
(* emitted with reduced = False.                                           *)
(***************************************************************************)
\* the assignments: any values on the support qubits, 0 on the others
C5Assignments(parity_check_matrix) ==
    {bits \in SeqsOfLen({0, 1}, Len(parity_check_matrix[1])) :
        \A k \in 1..Len(bits) :
            parity_matrix_totals(parity_check_matrix)[k] # 1 => bits[k] = 0}

C5_ReducedPreparesSameState ==
    (/\ pc = "done"
     /\ args.fn = "set_up_logical_zero"
     /\ ret.exc = "none"
     /\ set_up_logical_zero(args.parity_check_matrix, ~args.reduced).exc = "none")
        => \A bits \in C5Assignments(args.parity_check_matrix) :
              RunCX(ret.gates, bits)
                  = RunCX(set_up_logical_zero(args.parity_check_matrix,
                                              ~args.reduced).gates, bits)

(***************************************************************************)
(* circuits.py: the other gate lists, for an object built with d = 1,      *)
(* ancilla = True, extend_ancilla = True and no fault tolerant flags.      *)
(***************************************************************************)
num_extra_ancilla == 4

\* the circuit qubit of data[0][k], mx[0][k], mz[0][k], extra_ancilla[0][k]
DataQ(parity_check_matrix, k) == k
MxQ(parity_check_matrix, k) == Len(parity_check_matrix[1]) + k
MzQ(parity_check_matrix, k) ==
    Len(parity_check_matrix[1]) + Len(parity_check_matrix) + k
ExtraQ(parity_check_matrix, k) ==
    Len(parity_check_matrix[1]) + 2 * Len(parity_check_matrix) + k

NumQubits(parity_check_matrix) ==
    Len(parity_check_matrix[1]) + 2 * Len(parity_check_matrix) + num_extra_ancilla

\* force_X_error without the check that physical_qubit is not negative
force_X_error_no_lower_check(parity_check_matrix, physical_qubit) ==
    IF physical_qubit > Len(parity_check_matrix[1]) - 1
    THEN Emitted("ValueError: Qubit index must be in range of data qubits", <<>>)
    ELSE Emitted("none", <<Gate("x", <<DataQ(parity_check_matrix, physical_qubit)>>)>>)

\* force_X_error(physical_qubit) and force_Z_error(physical_qubit)
force_X_error(parity_check_matrix, physical_qubit) ==
    IF physical_qubit > Len(parity_check_matrix[1]) - 1 \/ physical_qubit < 0
    THEN Emitted("ValueError: Qubit index must be in range of data qubits", <<>>)
    ELSE Emitted("none", <<Gate("x", <<DataQ(parity_check_matrix, physical_qubit)>>)>>)

force_Z_error(parity_check_matrix, physical_qubit) ==
    IF physical_qubit > Len(parity_check_matrix[1]) - 1 \/ physical_qubit < 0
    THEN Emitted("ValueError: Qubit index must be in range of data qubits", <<>>)
    ELSE Emitted("none", <<Gate("z", <<DataQ(parity_check_matrix, physical_qubit)>>)>>)

\* the <<row, column>> pairs (0-based) of the ones of the matrix, row by row
MatrixOnes(parity_check_matrix) ==
    ConcatAll([r \in 1..Len(parity_check_matrix) |->
        LET columns == SelectSeq(Range(0, Len(parity_check_matrix[1])),
                                 LAMBDA c : parity_check_matrix[r][c + 1] = "1")
        IN  [n \in 1..Len(columns) |-> <<r - 1, columns[n]>>]])

\* set_up_ancilla() without fault tolerant ancilla
set_up_ancilla(parity_check_matrix) ==
    LET M == parity_check_matrix
        rows == Range(0, Len(M))
        ones == MatrixOnes(M)
        barrier == <<Gate("barrier", <<>>)>>
        hadamards == [n \in 1..Len(rows) |-> Gate("h", <<MxQ(M, rows[n])>>)]
                         \o [n \in 1..Len(rows) |-> Gate("h", <<MzQ(M, rows[n])>>)]
    IN  Emitted("none",
            ConcatAll([n \in 1..Len(rows) |->
                <<Gate("reset", <<MxQ(M, rows[n])>>), Gate("reset", <<MzQ(M, rows[n])>>)>>])
            \o barrier \o hadamards \o barrier
            \o [n \in 1..Len(ones) |->
                   Gate("cx", <<MxQ(M, ones[n][1]), DataQ(M, ones[n][2])>>)]
            \o barrier
            \o [n \in 1..Len(ones) |->
                   Gate("cz", <<MzQ(M, ones[n][1]), DataQ(M, ones[n][2])>>)]
            \o barrier \o barrier \o hadamards \o barrier)

\* _transpose_parity()[qubit]: the column of the matrix for a data qubit
bit_list(parity_check_matrix, qubit) ==
    [r \in 1..Len(parity_check_matrix) |-> parity_check_matrix[r][qubit + 1]]

\* the 0-based positions of the character c in a list
IndicesOf(list, c) == SelectSeq(Range(0, Len(list)), LAMBDA k : list[k + 1] = c)

\* the x gates on the ancilla whose bit of the column is '0'
FlipZeroBits(parity_check_matrix, qubit, z_type) ==
    LET zeros == IndicesOf(bit_list(parity_check_matrix, qubit), "0")
    IN  [n \in 1..Len(zeros) |->
            Gate("x", <<IF z_type THEN MzQ(parity_check_matrix, zeros[n])
                        ELSE MxQ(parity_check_matrix, zeros[n])>>)]

\* correct_errors(0, mct = True): the gates for one data qubit
CorrectMct(parity_check_matrix, qubit) ==
    LET M == parity_check_matrix
    IN  FlipZeroBits(M, qubit, TRUE)
        \o <<Gate("mct", <<MzQ(M, 0), MzQ(M, 1), MzQ(M, 2), DataQ(M, qubit)>>)>>
        \o FlipZeroBits(M, qubit, TRUE)
        \o FlipZeroBits(M, qubit, FALSE)
        \o <<Gate("h", <<DataQ(M, qubit)>>),
             Gate("mct", <<MxQ(M, 0), MxQ(M, 1), MxQ(M, 2), DataQ(M, qubit)>>),
             Gate("h", <<DataQ(M, qubit)>>)>>
        \o FlipZeroBits(M, qubit, FALSE)

\* the data qubits whose column of the matrix has count ones, in order
QubitsOfCount(parity_check_matrix, count) ==
    SelectSeq(Range(0, Len(parity_check_matrix[1])),
              LAMBDA q : Len(IndicesOf(bit_list(parity_check_matrix, q), "1")) = count)

\* single_CX_updates_list: <<qubit, bit_index>> for the columns with one 1
single_CX_updates_list(parity_check_matrix) ==
    LET singles == QubitsOfCount(parity_check_matrix, 1)
    IN  [n \in 1..Len(singles) |->
            <<singles[n], IndicesOf(bit_list(parity_check_matrix, singles[n]), "1")[1]>>]

\* lines 657-668: a cx from the Z ancilla and a cz from the X ancilla
CorrectSingles(parity_check_matrix) ==
    LET M == parity_check_matrix
        updates == single_CX_updates_list(M)
    IN  ConcatAll([n \in 1..Len(updates) |->
            <<Gate("cx", <<MzQ(M, updates[n][2]), DataQ(M, updates[n][1])>>),
              Gate("cz", <<MxQ(M, updates[n][2]), DataQ(M, updates[n][1])>>)>>])

\* first_bit and second_bit of a column with two ones
first_bit(parity_check_matrix, qubit) ==
    IndicesOf(bit_list(parity_check_matrix, qubit), "1")[1]

second_bit(parity_check_matrix, qubit) ==
    IndicesOf(bit_list(parity_check_matrix, qubit), "1")[2]

\* the ccx that computes (or uncomputes) the helper of a column with two ones
DoubleCcx(parity_check_matrix, qubit, extra_ancilla) ==
    LET M == parity_check_matrix
    IN  Gate("ccx", <<MzQ(M, first_bit(M, qubit)), MzQ(M, second_bit(M, qubit)),
                      ExtraQ(M, extra_ancilla)>>)

\* lines 686-701 for one column with two ones, helper number extra_ancilla
CorrectDouble(parity_check_matrix, qubit, extra_ancilla) ==
    LET M == parity_check_matrix
        helper == ExtraQ(M, extra_ancilla)
        impacted == SelectSeq(single_CX_updates_list(M),
                        LAMBDA items : first_bit(M, qubit) = items[2]
                                        \/ second_bit(M, qubit) = items[2])
    IN  <<DoubleCcx(M, qubit, extra_ancilla),
          Gate("cx", <<helper, DataQ(M, qubit)>>),
          Gate("cz", <<helper, DataQ(M, qubit)>>)>>
        \o ConcatAll([n \in 1..Len(impacted) |->
              <<Gate("cx", <<helper, DataQ(M, impacted[n][1])>>),
                Gate("cz", <<helper, DataQ(M, impacted[n][1])>>)>>])

\* the three ccx into extra_ancilla[3] (lines 708-716 and 732-740)
TripleCcx(parity_check_matrix) ==
    LET M == parity_check_matrix
    IN  <<Gate("ccx", <<ExtraQ(M, 0), ExtraQ(M, 1), ExtraQ(M, 3)>>),
          Gate("ccx", <<ExtraQ(M, 0), ExtraQ(M, 2), ExtraQ(M, 3)>>),
          Gate("ccx", <<ExtraQ(M, 1), ExtraQ(M, 2), ExtraQ(M, 3)>>)>>

\* the three ccx alone, without the cx and cz on the data qubits
CorrectTriple_no_flips(parity_check_matrix) == TripleCcx(parity_check_matrix)

\* lines 708-725 for one column with three ones
CorrectTriple(parity_check_matrix) ==
    LET M == parity_check_matrix
    IN  TripleCcx(M)
        \o ConcatAll([g \in 1..Len(M[1]) |->
              <<Gate("cx", <<ExtraQ(M, 3), DataQ(M, g - 1)>>),
                Gate("cz", <<ExtraQ(M, 3), DataQ(M, g - 1)>>)>>])

\* correct_errors(0, mct = False) without the closing ccx gates of lines
\* 742-760: the helper qubits keep what was computed into them
CorrectWithoutMct_helpers_left(parity_check_matrix) ==
    LET M == parity_check_matrix
        doubles == QubitsOfCount(M, 2)
        triples == QubitsOfCount(M, 3)
        usable == Min2(Len(doubles), num_extra_ancilla)
        first_pass == CorrectSingles(M)
                        \o ConcatAll([n \in 1..usable |->
                               CorrectDouble(M, doubles[n], n - 1)])
    IN  IF Len(doubles) > num_extra_ancilla
        THEN Emitted("IndexError", first_pass)
        ELSE Emitted("none",
                 first_pass
                 \o ConcatAll([n \in 1..Len(triples) |-> CorrectTriple(M)])
                 \o ConcatAll([n \in 1..Len(triples) |-> TripleCcx(M)]))

\* correct_errors(0, mct = False)
CorrectWithoutMct(parity_check_matrix) ==
    LET M == parity_check_matrix
        doubles == QubitsOfCount(M, 2)
        triples == QubitsOfCount(M, 3)
        usable == Min2(Len(doubles), num_extra_ancilla)
        first_pass == CorrectSingles(M)
                        \o ConcatAll([n \in 1..usable |->
                               CorrectDouble(M, doubles[n], n - 1)])
    IN  IF Len(doubles) > num_extra_ancilla
        THEN Emitted("IndexError", first_pass)
        ELSE Emitted("none",
                 first_pass
                 \o ConcatAll([n \in 1..Len(triples) |-> CorrectTriple(M)])
                 \o ConcatAll([n \in 1..Len(triples) |-> TripleCcx(M)])
                 \o [n \in 1..Len(doubles) |-> DoubleCcx(M, doubles[n], n - 1)])

\* correct_errors(logical_qubit = 0, mct)
correct_errors(parity_check_matrix, mct) ==
    LET M == parity_check_matrix
    IN  IF ~mct THEN CorrectWithoutMct(M)
        ELSE IF Len(M) < 3 THEN Emitted("IndexError", FlipZeroBits(M, 0, TRUE))
        ELSE Emitted("none",
                 ConcatAll([q \in 1..Len(M[1]) |-> CorrectMct(M, q - 1)]))

\* logical_measure_data() followed by logical_measure_ancilla(): a measure
\* of every qubit into the classical bit of the same number
logical_measure(parity_check_matrix) ==
    LET M == parity_check_matrix
        rows == Range(0, Len(M))
    IN  Emitted("none",
            [k \in 1..Len(M[1]) |-> Gate("measure", <<DataQ(M, k - 1)>>)]
            \o ConcatAll([n \in 1..Len(rows) |->
                  <<Gate("measure", <<MxQ(M, rows[n])>>),
                    Gate("measure", <<MzQ(M, rows[n])>>)>>])
            \o <<Gate("barrier", <<>>)>>
            \o [k \in 1..num_extra_ancilla |-> Gate("measure", <<ExtraQ(M, k - 1)>>)])

(***************************************************************************)
(* What the simulator does with a gate list.  A state of the qubits is a   *)
(* function from the basis states it is a superposition of (numbers whose  *)
(* bit q is the value of circuit qubit q) to their amplitudes, which are   *)
(* integers: the common factor of the amplitudes is left out.              *)
(***************************************************************************)
Bit(b, q) == (b \div (2 ^ q)) % 2

FlipBit(b, q) == IF Bit(b, q) = 1 THEN b - 2 ^ q ELSE b + 2 ^ q

\* every qubit is 0
ZeroState == [b \in {0} |-> 1]

\* a state that is no superposition of basis states (after a reset of an
\* entangled qubit)
MixedState == [b \in {-1} |-> 0]

\* x, cx, ccx, mct: the target is flipped where every control is 1
ControlledFlip(st, controls, target) ==
    LET F(b) == IF \A k \in 1..Len(controls) : Bit(b, controls[k]) = 1
                THEN FlipBit(b, target) ELSE b
    IN  [b \in {F(b0) : b0 \in DOMAIN st} |-> st[F(b)]]

\* z, cz: the sign changes where every qubit is 1
ControlledPhase(st, qubits) ==
    [b \in DOMAIN st |->
        IF \A k \in 1..Len(qubits) : Bit(b, qubits[k]) = 1 THEN 0 - st[b] ELSE st[b]]

\* the amplitudes without the zero ones, halved when all of them are even
Reduce(amplitudes) ==
    LET support == {b \in DOMAIN amplitudes : amplitudes[b] # 0}
    IN  IF \A b \in support : amplitudes[b] % 2 = 0
        THEN [b \in support |-> amplitudes[b] \div 2]
        ELSE [b \in support |-> amplitudes[b]]

Hadamard(st, q) ==
    LET amp(b) == IF b \in DOMAIN st THEN st[b] ELSE 0
        lows == {IF Bit(b, q) = 1 THEN b - 2 ^ q ELSE b : b \in DOMAIN st}
    IN  Reduce([b \in lows \cup {b0 + 2 ^ q : b0 \in lows} |->
                   IF Bit(b, q) = 0 THEN amp(b) + amp(b + 2 ^ q)
                   ELSE amp(b - 2 ^ q) - amp(b)])

Reset(st, q) ==
    IF \A b \in DOMAIN st : Bit(b, q) = 0 THEN st
    ELSE IF \A b \in DOMAIN st : Bit(b, q) = 1 THEN ControlledFlip(st, <<>>, q)
    ELSE MixedState

\* the same function with every amplitude computed
Tabulated(st) == st @@ st

ApplyGate(st, g) ==
    IF st = MixedState \/ g.op \in {"barrier", "measure"} THEN st
    ELSE IF g.op = "reset" THEN Tabulated(Reset(st, g.qs[1]))
    ELSE IF g.op = "h" THEN Tabulated(Hadamard(st, g.qs[1]))
    ELSE IF g.op \in {"z", "cz"} THEN Tabulated(ControlledPhase(st, g.qs))
    ELSE Tabulated(ControlledFlip(st, SubSeq(g.qs, 1, Len(g.qs) - 1), g.qs[Len(g.qs)]))

\* the state after the gates lo..hi of a gate list
RECURSIVE RunRange(_, _, _, _)
RunRange(st, gates, lo, hi) ==
    IF lo > hi THEN st
    ELSE IF lo = hi THEN ApplyGate(st, gates[lo])
    ELSE LET half == RunRange(st, gates, lo, (lo + hi) \div 2)
         IN  IF DOMAIN half = {} THEN half
             ELSE RunRange(half, gates, (lo + hi) \div 2 + 1, hi)

RunGates(st, gates) == RunRange(st, gates, 1, Len(gates))

\* a classical register of n bits read from the qubits first..first+n-1 of
\* the outcome b, printed with the last bit first
RegisterString(b, first, n) ==
    [k \in 1..n |-> IF Bit(b, first + n - k) = 1 THEN "1" ELSE "0"]

\* the key of get_counts() for the outcome b: the registers in the reverse
\* of the order they were added, separated by spaces
CountsKey(parity_check_matrix, b) ==
    LET M == parity_check_matrix
    IN  Join(<<RegisterString(b, ExtraQ(M, 0), num_extra_ancilla),
               RegisterString(b, MzQ(M, 0), Len(M)),
               RegisterString(b, MxQ(M, 0), Len(M)),
               RegisterString(b, DataQ(M, 0), Len(M[1]))>>)

(***************************************************************************)
(* SpecCircuit: a SteaneCodeLogicalQubit(1, parity_check_matrix,           *)
(* codewords, extend_ancilla = True) with the Steane matrix, the methods   *)
(* called on it in the order the tests and notebooks use, and one shot of  *)
(* the simulator.  args is the list of the calls made so far, circuit the  *)
(* gates appended so far and qstate the state they produce from all zero.  *)
(***************************************************************************)
Call(fn, flag, qubit) == [fn |-> fn, flag |-> flag, qubit |-> qubit]

\* a method appended e.gates (and raised e.exc, if not "none")
Appends(call, e, next_stage) ==
    /\ args' = Append(args, call)
    /\ circuit' = circuit \o e.gates
    /\ qstate' = RunGates(qstate, e.gates)
    /\ stage' = IF e.exc = "none" THEN next_stage ELSE "raised"
    /\ UNCHANGED <<pc, ret>>

InitCircuit ==
    /\ pc = "build"
    /\ args = <<>>
    /\ ret = NoValue
    /\ stage = "new"
    /\ circuit = <<>>
    /\ qstate = ZeroState

SetUpLogicalZero ==
    /\ stage = "new"
    /\ \E reduced \in BOOLEAN :
           Appends(Call("set_up_logical_zero", reduced, 0),
                   set_up_logical_zero(get_parity_check_matrix, reduced), "zero")

ForceXError ==
    /\ stage = "zero"
    /\ \E physical_qubit \in 0..(DATA_QUBITS - 1) :
           Appends(Call("force_X_error", FALSE, physical_qubit),
                   force_X_error(get_parity_check_matrix, physical_qubit), "error")

\* logical_gate_X, logical_gate_H, logical_gate_Z: op on every data qubit
logical_gate(parity_check_matrix, op) ==
    Emitted("none", [k \in 1..Len(parity_check_matrix[1]) |->
                        Gate(op, <<DataQ(parity_check_matrix, k - 1)>>)])

\* logical_gate_H(): the encoded zero becomes the encoded plus state
PlusState ==
    /\ stage = "zero"
    /\ Appends(Call("logical_gate_H", FALSE, 0),
               logical_gate(get_parity_check_matrix, "h"), "plus")

ForceZError ==
    /\ stage \in {"zero", "plus"}
    /\ \E physical_qubit \in 0..(DATA_QUBITS - 1) :
           Appends(Call("force_Z_error", FALSE, physical_qubit),
                   force_Z_error(get_parity_check_matrix, physical_qubit), "error")

SetUpAncilla ==
    /\ stage \in {"zero", "error"}
    /\ Appends(Call("set_up_ancilla", FALSE, 0),
               set_up_ancilla(get_parity_check_matrix), "ancilla")

CorrectErrors ==
    /\ stage = "ancilla"
    /\ \E mct \in BOOLEAN :
           Appends(Call("correct_errors", mct, 0),
                   correct_errors(get_parity_check_matrix, mct), "corrected")

Decode ==
    /\ stage = "zero"
    /\ \E reduced \in BOOLEAN :
           Appends(Call("decode", reduced, 0),
                   decode(get_parity_check_matrix, reduced), "decoded")

\* logical_measure_data(), logical_measure_ancilla(), one shot of execute()
\* and count_valid_output_strings(counts, codewords, 3) on its counts
MeasureAndCount ==
    /\ stage \in {"corrected", "decoded"}
    /\ qstate # MixedState
    /\ \E outcome \in DOMAIN qstate :
           /\ qstate' = [b \in {outcome} |-> 1]
           /\ ret' = count_valid_output_strings(
                         << <<CountsKey(get_parity_check_matrix, outcome), 1>> >>,
                         get_codewords, 3, FALSE, FALSE, FALSE, 0)
    /\ args' = Append(args, Call("logical_measure", FALSE, 0))
    /\ circuit' = circuit \o logical_measure(get_parity_check_matrix).gates
    /\ stage' = "measured"
    /\ UNCHANGED pc

NextCircuit ==
    \/ SetUpLogicalZero
    \/ PlusState
    \/ ForceXError
    \/ ForceZError
    \/ SetUpAncilla
    \/ CorrectErrors
    \/ Decode
    \/ MeasureAndCount

SpecCircuit == InitCircuit /\ [][NextCircuit]_vars

\* the values of the data qubits in the basis state b, qubit 0 first
DataBits(b) == [k \in 1..DATA_QUBITS |-> IF Bit(b, k - 1) = 1 THEN "1" ELSE "0"]

\* the calls so far are the methods fns, in this order
CallsAre(fns) ==
    /\ Len(args) = Len(fns)
    /\ \A k \in 1..Len(fns) : args[k].fn = fns[k]

(***************************************************************************)
(* C1: with the Steane matrix, for every data qubit i and both settings of *)
(* mct, set_up_logical_zero, force_X_error(i), set_up_ancilla,             *)
(* correct_errors(0, mct) leaves the data qubits in the logical zero code  *)
(* space: every measured data string, reversed, is one of the 8 codewords  *)
(* and count_invalid is 0.                                                 *)
(***************************************************************************)
C1Corrected ==
    CallsAre(<<"set_up_logical_zero", "force_X_error", "set_up_ancilla",
               "correct_errors">>)

C1Measured ==
    CallsAre(<<"set_up_logical_zero", "force_X_error", "set_up_ancilla",
               "correct_errors", "logical_measure">>)

C1_XErrorCorrected ==
    /\ C1Corrected =>
          /\ stage = "corrected"
          /\ qstate # MixedState
          /\ \A b \in DOMAIN qstate : InList(DataBits(b), get_codewords)
    /\ C1Measured =>
          /\ ret.exc = "none"
          /\ ret.count_invalid = 0
          /\ ret.count_valid = 1

\* C1 witness: an X error on data qubit 6 was corrected without mct gates
\* and a shot measured a codeword other than all zero
C1_Witness ==
    /\ C1Measured
    /\ args[2].qubit = 6
    /\ ~args[4].flag
    /\ ret.count_valid = 1
    /\ \E b \in DOMAIN qstate : DataBits(b) = get_codewords[8]

(***************************************************************************)
(* C3: for the Steane matrix and each setting of reduced, the gates of     *)
(* set_up_logical_zero(reduced) followed by the gates of decode(reduced)   *)
(* return all 7 data qubits to 0; the cx sequence of decode is the inverse *)
(* of the cx sequence of set_up_logical_zero on every assignment of the    *)
(* data qubits.                                                            *)
(***************************************************************************)
C3RoundTrip ==
    /\ CallsAre(<<"set_up_logical_zero", "decode">>)
    /\ args[1].flag = args[2].flag

C3_DecodeInvertsEncode ==
    C3RoundTrip =>
        /\ stage = "decoded"
        /\ DOMAIN qstate = {0}
        /\ \A bits \in SeqsOfLen({0, 1}, DATA_QUBITS) : RunCX(circuit, bits) = bits

\* C3 witness: the reduced encoding was decoded and every qubit is 0 again
C3_Witness ==
    /\ C3RoundTrip
    /\ args[1].flag
    /\ DOMAIN qstate = {0}
    /\ Len(SelectSeq(circuit, LAMBDA g : g.op = "cx")) = 16

(***************************************************************************)
(* SpecStrings: one call of strings_AND_bitwise, string_ancilla_mask,      *)
(* correct_qubit or flip_code_words on drawn arguments.                    *)
(***************************************************************************)
MaxStringLen == 3      \* characters of a drawn bit string
MaxMaskLen == 8        \* length argument of string_ancilla_mask
MaxAncillaLen == 4     \* characters of a drawn ancilla string
MaxCodewords == 2      \* strings in a drawn list of codewords
MaxCodewordLen == 2    \* characters of a drawn codeword

\* the bit strings of at most n characters
BitStringsUpTo(n) == UNION {SeqsOfLen(BitChars, k) : k \in 0..n}

StringsCall(fn, string1, string2, location, length, codewords_in) ==
    [fn |-> fn, string1 |-> string1, string2 |-> string2,
     location |-> location, length |-> length, codewords_in |-> codewords_in]

StringsCalls ==
    {StringsCall("strings_AND_bitwise", s1, s2, 0, 0, <<>>) :
        s1 \in BitStringsUpTo(MaxStringLen), s2 \in BitStringsUpTo(MaxStringLen)}
    \cup {StringsCall("string_ancilla_mask", <<>>, <<>>, location, length, <<>>) :
        location \in 0..(MaxMaskLen + 1), length \in 0..MaxMaskLen}
    \cup {StringsCall("correct_qubit", data_in, ancilla, 0, Len(data_in), <<>>) :
        data_in \in BitStringsUpTo(MaxStringLen) \ {<<>>},
        ancilla \in BitStringsUpTo(MaxAncillaLen) \ {<<>>}}
    \cup {StringsCall("flip_code_words", <<>>, <<>>, 0, 0, codewords_in) :
        codewords_in \in UNION {SeqsOfLen(BitStringsUpTo(MaxCodewordLen), n) :
                                   n \in 0..MaxCodewords}}

InitStrings ==
    /\ pc = "call"
    /\ args \in StringsCalls
    /\ ret = NoValue
    /\ stage = "unused"
    /\ circuit = <<>>
    /\ qstate = <<>>

StringsReturn(value) ==
    /\ ret' = value
    /\ pc' = "done"
    /\ UNCHANGED <<args, stage, circuit, qstate>>

CallStringsANDBitwise ==
    /\ pc = "call"
    /\ args.fn = "strings_AND_bitwise"
    /\ StringsReturn(strings_AND_bitwise(args.string1, args.string2))

\* the value returned on bad arguments is an Exception object, not a string
CallStringAncillaMask ==
    /\ pc = "call"
    /\ args.fn = "string_ancilla_mask"
    /\ StringsReturn(IF MaskArgsBad(args.location, args.length)
                     THEN [exc |-> "returned Exception", val |-> <<>>]
                     ELSE Ok(string_ancilla_mask(args.location, args.length)))

\* correct_qubit(data_in, ancilla, len(data_in))
CallCorrectQubitOfLength ==
    /\ pc = "call"
    /\ args.fn = "correct_qubit"
    /\ StringsReturn(correct_qubit(args.string1, args.string2, args.length))

CallFlipCodeWords ==
    /\ pc = "call"
    /\ args.fn = "flip_code_words"
    /\ StringsReturn(Ok(flip_code_words(args.codewords_in)))

NextStrings ==
    \/ CallStringsANDBitwise
    \/ CallStringAncillaMask
    \/ CallCorrectQubitOfLength
    \/ CallFlipCodeWords

SpecStrings == InitStrings /\ [][NextStrings]_vars

StringsReturned(fn) == pc = "done" /\ args.fn = fn

(***************************************************************************)
(* C11: strings_AND_bitwise returns the bitwise AND of two bit strings of  *)
(* the same length: character k of the result is '1' exactly when          *)
(* character k of both arguments is '1'.                                   *)
(***************************************************************************)
C11_BitwiseAND ==
    (StringsReturned("strings_AND_bitwise") /\ Len(args.string1) = Len(args.string2))
        => /\ ret.exc = "none"
           /\ Len(ret.val) = Len(args.string1)
           /\ \A k \in 1..Len(args.string1) :
                  ret.val[k] = "1" <=> (args.string1[k] = "1" /\ args.string2[k] = "1")

(***************************************************************************)
(* C12: string_ancilla_mask is one-hot: for 1 <= location <= length the    *)
(* result has exactly length characters, a '1' at the location-th position *)
(* counted from the right and '0' everywhere else.                         *)
(***************************************************************************)
C12_MaskOneHot ==
    (/\ StringsReturned("string_ancilla_mask")
     /\ 1 <= args.location
     /\ args.location <= args.length)
        => /\ ret.exc = "none"
           /\ Len(ret.val) = args.length
           /\ \A k \in 1..Len(ret.val) :
                  ret.val[k] = "1" <=> k = args.length - args.location + 1

(***************************************************************************)
(* C13: correct_qubit(data, ancilla, len(data)) returns data unchanged for *)
(* every data string and every ancilla string of one or more characters    *)
(* that are all '0'.                                                       *)
(***************************************************************************)
C13AllZero(ancilla) ==
    /\ Len(ancilla) >= 1
    /\ \A k \in 1..Len(ancilla) : ancilla[k] = "0"

C13_ZeroAncillaLeavesData ==
    (StringsReturned("correct_qubit") /\ C13AllZero(args.string2))
        => ret = Ok(args.string1)

(***************************************************************************)
(* C18: flip_code_words is the element-wise complement and an involution:  *)
(* for every list C of bit strings the result has the length and the order *)
(* of C with every bit of every string complemented, and flipping the      *)
(* result gives C again.                                                   *)
(***************************************************************************)
C18Complement(c) == IF c = "0" THEN "1" ELSE "0"

C18_FlipIsComplementAndInvolution ==
    StringsReturned("flip_code_words")
        => /\ ret.exc = "none"
           /\ Len(ret.val) = Len(args.codewords_in)
           /\ \A w \in 1..Len(args.codewords_in) :
                  /\ Len(ret.val[w]) = Len(args.codewords_in[w])
                  /\ \A k \in 1..Len(args.codewords_in[w]) :
                         ret.val[w][k] = C18Complement(args.codewords_in[w][k])
           /\ flip_code_words(ret.val) = args.codewords_in

\* C18 witness: a list of two different codewords, neither a palindrome nor
\* constant, was flipped
C18_Witness ==
    /\ StringsReturned("flip_code_words")
    /\ args.codewords_in = << <<"0", "1">>, <<"1", "1">> >>
    /\ ret.val = << <<"1", "0">>, <<"0", "0">> >>

(***************************************************************************)
(* SpecCount: one call of count_valid_output_strings on a drawn histogram, *)
(* codeword list, data_location and mode flags.  The drawn histograms are  *)
(* of two kinds: short keys of one or two segments, and single 7 character *)
(* keys that are the reversed Steane codewords, their complements and      *)
(* their single bit flips (and the histogram of all 8 of a kind).          *)
(***************************************************************************)
CountSegments == {<<"0", "1">>, <<"1", "0">>}

\* keys of one segment and of two segments
CountShortKeys ==
    CountSegments \cup {a \o <<SPACE>> \o b : a \in CountSegments, b \in CountSegments}

\* the members of a set of strings in some fixed order
RECURSIVE ListOf(_)
ListOf(S) ==
    IF S = {} THEN <<>>
    ELSE LET x == CHOOSE y \in S : TRUE IN <<x>> \o ListOf(S \ {x})

CountShortCodewords ==
    { <<>>,
      << <<"1", "0">> >>,
      << <<"1", "0">>, <<"0", "1">> >>,
      << <<"1">> >> }

CountArgs(counts, codewords, data_location, post_selection, simple, single, single_bit) ==
    [fn |-> "count_valid_output_strings", counts |-> counts, codewords |-> codewords,
     data_location |-> data_location, post_selection |-> post_selection,
     simple |-> simple, single |-> single, single_bit |-> single_bit]

CountShortCalls ==
    {CountArgs(counts, codewords, data_location, post_selection, simple, single,
               IF single THEN 2 * data_location ELSE 0) :
        counts \in FTHistograms(ListOf(CountShortKeys)),
        codewords \in CountShortCodewords,
        data_location \in 0..2,
        post_selection \in BOOLEAN, simple \in BOOLEAN, single \in BOOLEAN}

\* the Steane codewords, their complements and all their single bit flips
SteaneWords ==
    {get_codewords[c] : c \in 1..Len(get_codewords)}
    \cup {flip_code_words(get_codewords)[c] : c \in 1..Len(get_codewords)}
    \cup {FlipAt(get_codewords[c], i) :
            c \in 1..Len(get_codewords), i \in 0..(DATA_QUBITS - 1)}

\* the histogram of the reversed strings of a list, each seen value times
HistogramOfAll(words, value) ==
    [k \in 1..Len(words) |-> <<string_reverse(words[k]), value>>]

CountSteaneCalls ==
    {CountArgs(counts, codewords, 0, FALSE, TRUE, FALSE, 0) :
        counts \in {<< <<string_reverse(w), value>> >> :
                        w \in SteaneWords, value \in 1..MaxCount}
                   \cup {HistogramOfAll(get_codewords, value) : value \in 1..MaxCount}
                   \cup {HistogramOfAll(flip_code_words(get_codewords), value) :
                            value \in 1..MaxCount},
        codewords \in { << <<"0">> >>, << <<"1">> >> }}

InitCount ==
    /\ pc = "call"
    /\ args \in CountShortCalls \cup CountSteaneCalls
    /\ ret = NoValue
    /\ stage = "unused"
    /\ circuit = <<>>
    /\ qstate = <<>>

CallCountValidOutputStrings ==
    /\ pc = "call"
    /\ args.fn = "count_valid_output_strings"
    /\ ret' = count_valid_output_strings(args.counts, args.codewords,
                  args.data_location, args.post_selection, args.simple,
                  args.single, args.single_bit)
    /\ pc' = "done"
    /\ UNCHANGED <<args, stage, circuit, qstate>>

NextCount == CallCountValidOutputStrings

SpecCount == InitCount /\ [][NextCount]_vars

CountReturned == pc = "done" /\ args.fn = "count_valid_output_strings"

(***************************************************************************)
(* C14: in the default (exact) mode count_valid_output_strings adds the    *)
(* count of an entry to valid if and only if the reversal of the segment   *)
(* of its key at index data_location is a member of codewords, and to      *)
(* invalid otherwise, for every key and every in-range data_location,      *)
(* data_location = 0 (the first segment) included.                         *)
(***************************************************************************)
C14ExactMode == ~args.post_selection /\ ~args.simple /\ ~args.single

C14InRange ==
    \A k \in 1..Len(args.counts) : args.data_location < Len(Split(args.counts[k][1]))

C14SegmentIsCodeword(key) ==
    InList(string_reverse(Segment(key, args.data_location)), args.codewords)

C14SegmentIsNoCodeword(key) == ~C14SegmentIsCodeword(key)

C14_ExactCountsSegment ==
    (CountReturned /\ C14ExactMode /\ C14InRange)
        => /\ ret.exc = "none"
           /\ ret.count_valid = SumWhere(args.counts, C14SegmentIsCodeword)
           /\ ret.count_invalid = SumWhere(args.counts, C14SegmentIsNoCodeword)

(***************************************************************************)
(* C15: count_valid_output_strings fails with an error and returns no      *)
(* counts whenever more than one of post_selection, simple and single is   *)
(* set, and whenever simple or single is set with a codeword list whose    *)
(* length is not 1.                                                        *)
(***************************************************************************)
C15FlagsSet ==
    (IF args.post_selection THEN 1 ELSE 0) + (IF args.simple THEN 1 ELSE 0)
        + (IF args.single THEN 1 ELSE 0)

C15Conflict ==
    \/ C15FlagsSet > 1
    \/ (args.simple \/ args.single) /\ Len(args.codewords) # 1

C15_ConflictingModesFail ==
    (CountReturned /\ C15Conflict) => ret = CountsResult("ValueError", 0, 0, 0)

\* C15 witness: simple mode alone, with two codewords and a histogram that
\* would otherwise be counted
C15_Witness ==
    /\ CountReturned
    /\ args.simple /\ ~args.single /\ ~args.post_selection
    /\ Len(args.codewords) = 2
    /\ Len(args.counts) = 2
    /\ ret.exc = "ValueError"

(***************************************************************************)
(* C16: in simple mode every one of the 8 Steane logical zero codewords,   *)
(* given as a reversed key, is counted valid against the target ['0'], and *)
(* every one of the 8 complemented codewords is counted valid against the  *)
(* target ['1']; none is counted invalid.                                  *)
(***************************************************************************)
C16SimpleCall(target) ==
    /\ CountReturned
    /\ args.simple /\ ~args.single /\ ~args.post_selection
    /\ args.data_location = 0
    /\ args.codewords = << <<target>> >>

\* every key of the histogram is the reversed string of a member of words
C16KeysFrom(words) ==
    /\ args.counts # <<>>
    /\ \A k \in 1..Len(args.counts) :
           InList(string_reverse(args.counts[k][1]), words)

C16_SimpleAcceptsCodewords ==
    /\ (C16SimpleCall("0") /\ C16KeysFrom(get_codewords))
          => ret = CountsResult("none", TotalShots(args.counts), 0, 0)
    /\ (C16SimpleCall("1") /\ C16KeysFrom(flip_code_words(get_codewords)))
          => ret = CountsResult("none", TotalShots(args.counts), 0, 0)

\* C16 witness: all 8 complemented codewords in one histogram, target ['1']
C16_Witness ==
    /\ C16SimpleCall("1")
    /\ C16KeysFrom(flip_code_words(get_codewords))
    /\ Len(args.counts) = Len(get_codewords)
    /\ ret.count_valid = TotalShots(args.counts)
    /\ ret.count_invalid = 0

(***************************************************************************)
(* C17: in simple mode against the target ['0'], a Steane logical zero     *)
(* codeword with exactly one bit flipped at codeword position i is counted *)
(* invalid if and only if i is one of the positions returned by            *)
(* calculate_simple_parity_bits, which for the Steane matrix are exactly   *)
(* [2, 4, 5]; a flip at any other position is counted valid.               *)
(***************************************************************************)
C17Case(c, i) ==
    /\ C16SimpleCall("0")
    /\ Len(args.counts) = 1
    /\ args.counts[1][1] = string_reverse(FlipAt(get_codewords[c], i))

C17_SimpleSingleFlip ==
    /\ calculate_simple_parity_bits = <<2, 4, 5>>
    /\ \A c \in 1..Len(get_codewords) : \A i \in 0..(DATA_QUBITS - 1) :
           C17Case(c, i) =>
               IF InList(i, calculate_simple_parity_bits)
               THEN ret = CountsResult("none", 0, args.counts[1][2], 0)
               ELSE ret = CountsResult("none", args.counts[1][2], 0, 0)

\* C17 witness: position 4 of the codeword 1101001 flipped, counted invalid
C17_Witness ==
    /\ C17Case(8, 4)
    /\ ret.count_invalid = args.counts[1][2]
    /\ ret.count_valid = 0

(***************************************************************************)
(* SpecLogical: a SteaneCodeLogicalQubit(d, parity_check_matrix,           *)
(* codewords) with the Steane matrix, ancilla = True and no other option,  *)
(* and up to two calls of the methods that take a logical_qubit argument,  *)
(* on drawn arguments.  A call that raises leaves the object usable.       *)
(* args is the last call, ret what it raised and the gates it appended.    *)
(***************************************************************************)
MaxD == 2           \* logical qubits of the object
MaxLogical == 3     \* greatest drawn logical_qubit

LogicalQubits == (0 - 1)..MaxLogical
PhysicalQubits == (0 - 1)..DATA_QUBITS

\* qubits of the registers data, ancilla X and ancilla Z of one logical qubit
LogicalRegisterSize(parity_check_matrix) ==
    Len(parity_check_matrix[1]) + 2 * Len(parity_check_matrix)

\* _validate_logical_qubit_number(logical_qubit): what it raises, or "none"
validate_logical_qubit_number(d, logical_qubit) ==
    IF logical_qubit > d
    THEN "ValueError: Logical operations must be on qubits initialised"
    ELSE IF logical_qubit < 0
    THEN "ValueError: Logical qubit number must be positive"
    ELSE "none"

\* self.__data[k] and the like for a list of d registers: the position
\* Python reads, or Unbound where it raises IndexError
ListIndex(d, k) ==
    IF 0 <= k /\ k < d THEN k
    ELSE IF k < 0 /\ 0 - d <= k THEN d + k
    ELSE Unbound

\* the gates with every qubit moved to the registers of a logical qubit
OnRegisters(parity_check_matrix, index, gates) ==
    [n \in 1..Len(gates) |->
        Gate(gates[n].op,
             [k \in 1..Len(gates[n].qs) |->
                 gates[n].qs[k] + index * LogicalRegisterSize(parity_check_matrix)])]

\* a method that validates the number `validated`, then emits the gates of
\* `emitted` on the registers of logical_qubit; the first gate it appends
\* reads the register list at logical_qubit
OnLogicalQubit(d, parity_check_matrix, validated, logical_qubit, emitted) ==
    IF validate_logical_qubit_number(d, validated) # "none"
    THEN Emitted(validate_logical_qubit_number(d, validated), <<>>)
    ELSE IF ListIndex(d, logical_qubit) = Unbound
    THEN Emitted("IndexError", <<>>)
    ELSE Emitted(emitted.exc,
                 OnRegisters(parity_check_matrix, ListIndex(d, logical_qubit),
                             emitted.gates))

\* logical_measure_data(logical_qubit), no fault tolerant scheme
logical_measure_data(parity_check_matrix) ==
    Emitted("none", [k \in 1..Len(parity_check_matrix[1]) |->
                        Gate("measure", <<DataQ(parity_check_matrix, k - 1)>>)])

\* logical_measure_ancilla(logical_qubit), no extra ancilla
logical_measure_ancilla(parity_check_matrix) ==
    LET M == parity_check_matrix
    IN  Emitted("none",
            ConcatAll([n \in 1..Len(M) |->
                <<Gate("measure", <<MxQ(M, n - 1)>>),
                  Gate("measure", <<MzQ(M, n - 1)>>)>>])
            \o <<Gate("barrier", <<>>)>>)

\* logical_gate_X(logical_qubit) validates the number 0
logical_gate_X(d, parity_check_matrix, logical_qubit) ==
    OnLogicalQubit(d, parity_check_matrix, 0, logical_qubit,
                   logical_gate(parity_check_matrix, "x"))

\* logical_gate_CX(logical_control_qubit, logical_target_qubit)
logical_gate_CX(d, parity_check_matrix, logical_control_qubit, logical_target_qubit) ==
    LET M == parity_check_matrix
        control == ListIndex(d, logical_control_qubit)
        target == ListIndex(d, logical_target_qubit)
    IN  IF validate_logical_qubit_number(d, logical_control_qubit) # "none"
        THEN Emitted(validate_logical_qubit_number(d, logical_control_qubit), <<>>)
        ELSE IF validate_logical_qubit_number(d, logical_target_qubit) # "none"
        THEN Emitted(validate_logical_qubit_number(d, logical_target_qubit), <<>>)
        ELSE IF logical_control_qubit = logical_target_qubit
        THEN Emitted("ValueError: the control and target qubits for the logical CX must be different", <<>>)
        ELSE IF control = Unbound \/ target = Unbound
        THEN Emitted("IndexError", <<>>)
        ELSE Emitted("none",
                 [k \in 1..Len(M[1]) |->
                     Gate("cx", <<control * LogicalRegisterSize(M) + DataQ(M, k - 1),
                                  target * LogicalRegisterSize(M) + DataQ(M, k - 1)>>)])

\* force_X_error(physical_qubit, logical_qubit) and force_Z_error: the
\* physical qubit number is validated first
force_error_on(d, parity_check_matrix, logical_qubit, emitted) ==
    IF emitted.exc # "none" THEN emitted
    ELSE OnLogicalQubit(d, parity_check_matrix, logical_qubit, logical_qubit, emitted)

LogicalArgs(fn, d, logical_qubit, qubit, flag) ==
    [fn |-> fn, d |-> d, logical_qubit |-> logical_qubit, qubit |-> qubit,
     flag |-> flag]

InitLogical ==
    /\ pc = "built"
    /\ \E d \in 1..MaxD : args = LogicalArgs("__init__", d, 0, 0, FALSE)
    /\ ret = Emitted("none", <<>>)
    /\ stage = "unused"
    /\ circuit = <<>>
    /\ qstate = <<>>

\* one call: what it raised and appended is kept in ret
LogicalCall(fn, logical_qubit, qubit, flag, emitted) ==
    /\ pc' = IF pc = "built" THEN "once" ELSE "twice"
    /\ args' = LogicalArgs(fn, args.d, logical_qubit, qubit, flag)
    /\ ret' = emitted
    /\ circuit' = circuit \o emitted.gates
    /\ UNCHANGED <<stage, qstate>>

LogicalSetUpLogicalZero ==
    /\ pc # "twice"
    /\ \E logical_qubit \in LogicalQubits, reduced \in BOOLEAN :
           LogicalCall("set_up_logical_zero", logical_qubit, 0, reduced,
               OnLogicalQubit(args.d, get_parity_check_matrix, logical_qubit, logical_qubit,
                              set_up_logical_zero(get_parity_check_matrix, reduced)))

LogicalForceXError ==
    /\ pc # "twice"
    /\ \E logical_qubit \in LogicalQubits, physical_qubit \in PhysicalQubits :
           LogicalCall("force_X_error", logical_qubit, physical_qubit, FALSE,
               force_error_on(args.d, get_parity_check_matrix, logical_qubit,
                              force_X_error(get_parity_check_matrix, physical_qubit)))

LogicalForceZError ==
    /\ pc # "twice"
    /\ \E logical_qubit \in LogicalQubits, physical_qubit \in PhysicalQubits :
           LogicalCall("force_Z_error", logical_qubit, physical_qubit, FALSE,
               force_error_on(args.d, get_parity_check_matrix, logical_qubit,
                              force_Z_error(get_parity_check_matrix, physical_qubit)))

LogicalSetUpAncilla ==
    /\ pc # "twice"
    /\ \E logical_qubit \in LogicalQubits :
           LogicalCall("set_up_ancilla", logical_qubit, 0, FALSE,
               OnLogicalQubit(args.d, get_parity_check_matrix, logical_qubit, logical_qubit,
                              set_up_ancilla(get_parity_check_matrix)))

LogicalMeasureData ==
    /\ pc # "twice"
    /\ \E logical_qubit \in LogicalQubits :
           LogicalCall("logical_measure_data", logical_qubit, 0, FALSE,
               OnLogicalQubit(args.d, get_parity_check_matrix, logical_qubit, logical_qubit,
                              logical_measure_data(get_parity_check_matrix)))

LogicalMeasureAncilla ==
    /\ pc # "twice"
    /\ \E logical_qubit \in LogicalQubits :
           LogicalCall("logical_measure_ancilla", logical_qubit, 0, FALSE,
               OnLogicalQubit(args.d, get_parity_check_matrix, logical_qubit, logical_qubit,
                              logical_measure_ancilla(get_parity_check_matrix)))

LogicalDecode ==
    /\ pc # "twice"
    /\ \E logical_qubit \in LogicalQubits, reduced \in BOOLEAN :
           LogicalCall("decode", logical_qubit, 0, reduced,
               OnLogicalQubit(args.d, get_parity_check_matrix, logical_qubit, logical_qubit,
                              decode(get_parity_check_matrix, reduced)))

LogicalGateX ==
    /\ pc # "twice"
    /\ \E logical_qubit \in LogicalQubits :
           LogicalCall("logical_gate_X", logical_qubit, 0, FALSE,
               logical_gate_X(args.d, get_parity_check_matrix, logical_qubit))

LogicalGateH ==
    /\ pc # "twice"
    /\ \E logical_qubit \in LogicalQubits :
           LogicalCall("logical_gate_H", logical_qubit, 0, FALSE,
               OnLogicalQubit(args.d, get_parity_check_matrix, logical_qubit, logical_qubit,
                              logical_gate(get_parity_check_matrix, "h")))

LogicalGateZ ==
    /\ pc # "twice"
    /\ \E logical_qubit \in LogicalQubits :
           LogicalCall("logical_gate_Z", logical_qubit, 0, FALSE,
               OnLogicalQubit(args.d, get_parity_check_matrix, logical_qubit, logical_qubit,
                              logical_gate(get_parity_check_matrix, "z")))

LogicalGateCX ==
    /\ pc # "twice"
    /\ \E logical_control_qubit \in LogicalQubits, logical_target_qubit \in LogicalQubits :
           LogicalCall("logical_gate_CX", logical_control_qubit, logical_target_qubit, FALSE,
               logical_gate_CX(args.d, get_parity_check_matrix,
                               logical_control_qubit, logical_target_qubit))

NextLogical ==
    \/ LogicalSetUpLogicalZero
    \/ LogicalForceXError
    \/ LogicalForceZError
    \/ LogicalSetUpAncilla
    \/ LogicalMeasureData
    \/ LogicalMeasureAncilla
    \/ LogicalDecode
    \/ LogicalGateX
    \/ LogicalGateH
    \/ LogicalGateZ
    \/ LogicalGateCX

SpecLogical == InitLogical /\ [][NextLogical]_vars

(***************************************************************************)
(* C19: every operation that takes a logical_qubit argument                *)
(* (set_up_logical_zero, force_X_error, force_Z_error, set_up_ancilla,     *)
(* logical_measure_data, logical_measure_ancilla, decode and               *)
(* logical_gate_X/H/Z/CX) raises ValueError 'Logical operations must be on *)
(* qubits initialised' and appends no gate whenever logical_qubit >= d.    *)
(***************************************************************************)
C19NotInitialised ==
    /\ pc # "built"
    /\ \/ args.logical_qubit >= args.d
       \/ args.fn = "logical_gate_CX" /\ args.qubit >= args.d

C19_UninitialisedLogicalQubitRejected ==
    C19NotInitialised
        => /\ ret.exc = "ValueError: Logical operations must be on qubits initialised"
           /\ ret.gates = <<>>

(***************************************************************************)
(* C20: force_X_error and force_Z_error raise ValueError 'Qubit index must *)
(* be in range of data qubits' and append no gate to the circuit whenever  *)
(* physical_qubit is outside 0..num_data-1; for an in-range index exactly  *)
(* one X (resp. Z) gate on that data qubit is appended.                    *)
(***************************************************************************)
C20InRange(physical_qubit) == 0 <= physical_qubit /\ physical_qubit <= DATA_QUBITS - 1

\* the step is a call of force_X_error or force_Z_error that leaves op
C20Forces(fn, op) ==
    args'.fn = fn =>
        IF ~C20InRange(args'.qubit)
        THEN /\ ret'.exc = "ValueError: Qubit index must be in range of data qubits"
             /\ circuit' = circuit
        ELSE (0 <= args'.logical_qubit /\ args'.logical_qubit < args'.d)
                => /\ ret'.exc = "none"
                   /\ circuit' = Append(circuit,
                          Gate(op, <<args'.logical_qubit
                                        * LogicalRegisterSize(get_parity_check_matrix)
                                     + args'.qubit>>))

C20_ForcedErrorQubitValidated ==
    [][C20Forces("force_X_error", "x") /\ C20Forces("force_Z_error", "z")]_vars

\* C20 witness: on a circuit that already holds the encoding, force_X_error(7)
\* raised and appended nothing
C20_Witness ==
    /\ pc = "twice"
    /\ args.fn = "force_X_error"
    /\ args.qubit = DATA_QUBITS
    /\ args.logical_qubit = 0
    /\ ret = Emitted("ValueError: Qubit index must be in range of data qubits", <<>>)
    /\ circuit = set_up_logical_zero(get_parity_check_matrix, TRUE).gates

(***************************************************************************)
(* SpecConstruct: SteaneCodeLogicalQubit(d, parity_check_matrix, codewords,*)
(* ancilla, extend_ancilla, fault_tolerant_b, fault_tolerant_c,            *)
(* fault_tolerant_ancilla, ancilla_rounds, data_rounds) with the Steane    *)
(* matrix on drawn arguments, and one logical_measure_data on the object.  *)
(*                                                                         *)
(* A Python value that may not be an int is a record of its type and of    *)
(* twice its numeric value (so that 0.5 and 1.5 are numbers of the model). *)
(***************************************************************************)
MaxRounds == 2      \* greatest drawn number of measurement rounds

PyInt(n) == [kind |-> "int", twice |-> 2 * n]
PyFloat(twice) == [kind |-> "float", twice |-> twice]
PyStr(n) == [kind |-> "str", twice |-> 2 * n]

\* validate_integer(number): type(number) != int raises ValueError
validate_integer(number) == IF number.kind # "int" THEN "ValueError" ELSE "none"

\* number > 1 for a Python value: "TypeError" for a str, else "True"/"False"
GreaterThanOne(number) ==
    IF number.kind = "str" THEN "TypeError"
    ELSE IF number.twice > 2 THEN "True" ELSE "False"

\* lines 50-72 of __init__: the exception raised by the argument checks
init_arguments_error(cfg) ==
    IF validate_integer(cfg.d) # "none" THEN "ValueError"
    ELSE IF cfg.d.twice > 2 /\ (cfg.extend_ancilla \/ cfg.fault_tolerant_ancilla)
    THEN "ValueError"
    ELSE IF ~cfg.ancilla /\ (cfg.fault_tolerant_ancilla \/ cfg.extend_ancilla)
    THEN "ValueError"
    ELSE IF ~cfg.fault_tolerant_ancilla /\ GreaterThanOne(cfg.ancilla_rounds) # "False"
    THEN IF GreaterThanOne(cfg.ancilla_rounds) = "True" THEN "ValueError" ELSE "TypeError"
    ELSE IF /\ ~cfg.fault_tolerant_b
            /\ ~cfg.fault_tolerant_c
            /\ GreaterThanOne(cfg.data_rounds) # "False"
    THEN IF GreaterThanOne(cfg.data_rounds) = "True" THEN "ValueError" ELSE "TypeError"
    ELSE IF cfg.fault_tolerant_b /\ cfg.fault_tolerant_c THEN "ValueError"
    ELSE IF validate_integer(cfg.ancilla_rounds) # "none" THEN "ValueError"
    ELSE validate_integer(cfg.data_rounds)

\* define_data and define_registers: the number of classical registers in
\* each slot of self.__ftc_classical after the loop over the logical qubits
\* ran for index1 = 0..upto-1 (the list has data_rounds slots)
ftc_classical(data_rounds, upto) ==
    [slot \in 1..data_rounds |-> IF slot <= upto THEN data_rounds ELSE 0]

\* the first index1 at which define_registers raises IndexError, or Unbound
define_registers_error(d, data_rounds, fault_tolerant_b, fault_tolerant_c) ==
    LET failing == {index1 \in 0..(d - 1) :
                       \/ fault_tolerant_b /\ index1 >= 2
                       \/ fault_tolerant_c /\ data_rounds > 0 /\ index1 >= data_rounds}
    IN  IF failing = {} THEN Unbound ELSE MinOf(failing)

Constructed(exc, d, data_rounds, ftc) ==
    [exc |-> exc, d |-> d, data_rounds |-> data_rounds, ftc_classical |-> ftc]

\* __init__ with the Steane matrix and its codewords
construct(cfg) ==
    LET d == cfg.d.twice \div 2
        data_rounds == cfg.data_rounds.twice \div 2
        failing == define_registers_error(d, data_rounds, cfg.fault_tolerant_b,
                                          cfg.fault_tolerant_c)
    IN  IF init_arguments_error(cfg) # "none"
        THEN Constructed(init_arguments_error(cfg), 0, 0, <<>>)
        ELSE IF failing # Unbound
        THEN Constructed("IndexError", 0, 0, <<>>)
        ELSE Constructed("none", d, data_rounds,
                 IF cfg.fault_tolerant_c THEN ftc_classical(data_rounds, d) ELSE <<>>)

\* a measure of a qubit register into a classical register
MeasureInto(qubits, bits) == [op |-> "measure", qs |-> qubits, bits |-> bits]

\* logical_measure_data(logical_qubit, measure_round) on a built object, for
\* 0 <= logical_qubit < d: the exception and the measurements appended,
\* one per register
logical_measure_data_round(cfg, built, logical_qubit, measure_round) ==
    LET round_index == measure_round - 1
        data == <<"data", logical_qubit>>
    IN  IF cfg.fault_tolerant_b
        THEN IF logical_qubit = 1
             THEN IF ListIndex(built.data_rounds, round_index) = Unbound
                  THEN Emitted("IndexError", <<>>)
                  ELSE Emitted("none",
                          <<MeasureInto(data, <<"data_classical", logical_qubit,
                                ListIndex(built.data_rounds, round_index)>>)>>)
             ELSE Emitted("none",
                     <<MeasureInto(data, <<"data_classical", logical_qubit, 0>>)>>)
        ELSE IF cfg.fault_tolerant_c
        THEN LET final == IF measure_round = built.data_rounds
                          THEN <<MeasureInto(data, <<"data_classical", logical_qubit, 0>>)>>
                          ELSE <<>>
             IN  IF measure_round > built.data_rounds
                 THEN Emitted("ValueError", <<>>)
                 ELSE IF ListIndex(built.ftc_classical[logical_qubit + 1], round_index)
                            = Unbound
                 THEN Emitted("IndexError", final)
                 ELSE Emitted("none",
                         final \o <<MeasureInto(<<"ftc", logical_qubit>>,
                                       <<"ftc_classical", logical_qubit,
                                         ListIndex(built.ftc_classical[logical_qubit + 1],
                                                   round_index)>>)>>)
        ELSE Emitted("none",
                 <<MeasureInto(data, <<"data_classical", logical_qubit, 0>>)>>)

ConstructValues ==
    {PyInt(n) : n \in 1..MaxRounds} \cup {PyFloat(1), PyFloat(3), PyStr(2)}

ConstructConfigs ==
    [d : {PyInt(n) : n \in 1..MaxD} \cup {PyFloat(2), PyStr(1)},
     ancilla : BOOLEAN, extend_ancilla : BOOLEAN,
     fault_tolerant_b : BOOLEAN, fault_tolerant_c : BOOLEAN,
     fault_tolerant_ancilla : BOOLEAN,
     ancilla_rounds : ConstructValues, data_rounds : ConstructValues]

InitConstruct ==
    /\ pc = "call"
    /\ args \in ConstructConfigs
    /\ ret = NoValue
    /\ stage = "new"
    /\ circuit = <<>>
    /\ qstate = <<>>

ConstructObject ==
    /\ pc = "call"
    /\ ret' = construct(args)
    /\ pc' = "constructed"
    /\ stage' = IF construct(args).exc = "none" THEN "built" ELSE "raised"
    /\ UNCHANGED <<args, circuit, qstate>>

\* qstate keeps the arguments and the exception of the call
MeasureDataRound ==
    /\ pc = "constructed"
    /\ stage = "built"
    /\ \E logical_qubit \in 0..(ret.d - 1), measure_round \in 1..(MaxRounds + 1) :
          LET emitted == logical_measure_data_round(args, ret, logical_qubit,
                                                    measure_round)
          IN  /\ circuit' = circuit \o emitted.gates
              /\ qstate' = [logical_qubit |-> logical_qubit,
                            measure_round |-> measure_round, exc |-> emitted.exc]
    /\ pc' = "measured"
    /\ UNCHANGED <<args, ret, stage>>

NextConstruct == ConstructObject \/ MeasureDataRound

SpecConstruct == InitConstruct /\ [][NextConstruct]_vars

(***************************************************************************)
(* C21: constructing a SteaneCodeLogicalQubit raises ValueError, producing *)
(* no circuit, for each invalid configuration: d > 1 with extend_ancilla;  *)
(* d > 1 with fault_tolerant_ancilla; ancilla = False with                 *)
(* fault_tolerant_ancilla or extend_ancilla; ancilla_rounds > 1 without    *)
(* fault_tolerant_ancilla; data_rounds > 1 with neither fault_tolerant_b   *)
(* nor fault_tolerant_c; fault_tolerant_b together with fault_tolerant_c;  *)
(* a non-integer d, ancilla_rounds or data_rounds.                         *)
(***************************************************************************)
C21Invalid(cfg) ==
    \/ cfg.d.kind # "int"
    \/ cfg.ancilla_rounds.kind # "int"
    \/ cfg.data_rounds.kind # "int"
    \/ cfg.d.twice > 2 /\ (cfg.extend_ancilla \/ cfg.fault_tolerant_ancilla)
    \/ ~cfg.ancilla /\ (cfg.fault_tolerant_ancilla \/ cfg.extend_ancilla)
    \/ cfg.ancilla_rounds.twice > 2 /\ ~cfg.fault_tolerant_ancilla
    \/ cfg.data_rounds.twice > 2 /\ ~cfg.fault_tolerant_b /\ ~cfg.fault_tolerant_c
    \/ cfg.fault_tolerant_b /\ cfg.fault_tolerant_c

C21_InvalidConfigurationRaisesValueError ==
    (pc # "call" /\ C21Invalid(args))
        => /\ ret.exc = "ValueError"
           /\ stage = "raised"
           /\ circuit = <<>>

(***************************************************************************)
(* C30: for every configuration that passes the argument validation with   *)
(* fault_tolerant_c = True (d in {1, 2}, data_rounds = R >= 1) the         *)
(* construction completes and every logical qubit 0..d-1 owns exactly R    *)
(* helper measurement classical registers, one per round, so that          *)
(* logical_measure_data(logical_qubit, r) for r in 1..R writes the helper  *)
(* qubit into the register of round r.                                     *)
(***************************************************************************)
C30Case ==
    /\ pc # "call"
    /\ init_arguments_error(args) = "none"
    /\ args.fault_tolerant_c
    /\ args.d.twice \div 2 \in {1, 2}
    /\ args.data_rounds.twice \div 2 >= 1

C30_EveryLogicalQubitOwnsItsRoundRegisters ==
    C30Case
        => /\ ret.exc = "none"
           /\ \A logical_qubit \in 0..(ret.d - 1) :
                  ret.ftc_classical[logical_qubit + 1] = ret.data_rounds
           /\ (pc = "measured" /\ qstate.measure_round <= ret.data_rounds)
                 => /\ qstate.exc = "none"
                    /\ circuit[Len(circuit)]
                          = MeasureInto(<<"ftc", qstate.logical_qubit>>,
                                        <<"ftc_classical", qstate.logical_qubit,
                                          qstate.measure_round - 1>>)

(***************************************************************************)
(* SpecCorrect: correct_errors(logical_qubit, mct) on an object of d       *)
(* logical qubits built with or without the extra ancilla (extend_ancilla  *)
(* needs d = 1), on an empty circuit or after set_up_logical_zero and      *)
(* set_up_ancilla.                                                         *)
(***************************************************************************)
\* correct_errors without the test of self.__extend_ancilla (line 602)
correct_errors_on_no_extend_check(d, extend_ancilla, parity_check_matrix, logical_qubit, mct) ==
    IF mct
    THEN IF logical_qubit \notin {0, 1}
         THEN Emitted("ValueError: errors can only be corrected for one or two logical qubit at present",
                      <<>>)
         ELSE OnLogicalQubit(d, parity_check_matrix, 0, logical_qubit,
                             correct_errors(parity_check_matrix, TRUE))
    ELSE IF logical_qubit # 0
    THEN Emitted("ValueError: errors can only be corrected for one logical qubit at present if mct as not used ",
                 <<>>)
    ELSE correct_errors(parity_check_matrix, FALSE)

\* correct_errors(logical_qubit, mct), lines 595-603 and the gates that follow
correct_errors_on(d, extend_ancilla, parity_check_matrix, logical_qubit, mct) ==
    IF mct
    THEN IF logical_qubit \notin {0, 1}
         THEN Emitted("ValueError: errors can only be corrected for one or two logical qubit at present",
                      <<>>)
         ELSE OnLogicalQubit(d, parity_check_matrix, 0, logical_qubit,
                             correct_errors(parity_check_matrix, TRUE))
    ELSE IF logical_qubit # 0
    THEN Emitted("ValueError: errors can only be corrected for one logical qubit at present if mct as not used ",
                 <<>>)
    ELSE IF ~extend_ancilla
    THEN Emitted("ValueError: extra ancilla are needed to correct errors without mct", <<>>)
    ELSE correct_errors(parity_check_matrix, FALSE)

CorrectArgs(fn, d, extend_ancilla, logical_qubit, mct) ==
    [fn |-> fn, d |-> d, extend_ancilla |-> extend_ancilla,
     logical_qubit |-> logical_qubit, mct |-> mct]

InitCorrect ==
    /\ pc = "built"
    /\ \E d \in 1..MaxD, extend_ancilla \in BOOLEAN :
          /\ extend_ancilla => d = 1
          /\ args = CorrectArgs("__init__", d, extend_ancilla, 0, FALSE)
    /\ ret = Emitted("none", <<>>)
    /\ stage = "unused"
    /\ circuit = <<>>
    /\ qstate = <<>>

CorrectCall(fn, logical_qubit, mct, emitted, next) ==
    /\ pc' = next
    /\ args' = CorrectArgs(fn, args.d, args.extend_ancilla, logical_qubit, mct)
    /\ ret' = emitted
    /\ circuit' = circuit \o emitted.gates
    /\ UNCHANGED <<stage, qstate>>

CorrectSetUpLogicalZero ==
    /\ pc = "built"
    /\ \E logical_qubit \in LogicalQubits, reduced \in BOOLEAN :
          CorrectCall("set_up_logical_zero", logical_qubit, FALSE,
              OnLogicalQubit(args.d, get_parity_check_matrix, logical_qubit, logical_qubit,
                             set_up_logical_zero(get_parity_check_matrix, reduced)),
              "zero")

CorrectSetUpAncilla ==
    /\ pc \in {"built", "zero"}
    /\ \E logical_qubit \in LogicalQubits :
          CorrectCall("set_up_ancilla", logical_qubit, FALSE,
              OnLogicalQubit(args.d, get_parity_check_matrix, logical_qubit, logical_qubit,
                             set_up_ancilla(get_parity_check_matrix)),
              "ancilla")

CorrectErrorsOn ==
    /\ pc \in {"built", "zero", "ancilla"}
    /\ \E logical_qubit \in LogicalQubits, mct \in BOOLEAN :
          CorrectCall("correct_errors", logical_qubit, mct,
              correct_errors_on(args.d, args.extend_ancilla, get_parity_check_matrix,
                                logical_qubit, mct),
              "corrected")

NextCorrect == CorrectSetUpLogicalZero \/ CorrectSetUpAncilla \/ CorrectErrorsOn

SpecCorrect == InitCorrect /\ [][NextCorrect]_vars

(***************************************************************************)
(* C22: correct_errors with mct = False fails when logical_qubit is not 0  *)
(* or when the circuit was built without the extra ancilla; with           *)
(* mct = True it fails when logical_qubit is not 0 or 1.  The error is     *)
(* raised before any gate is appended: the circuit is unchanged.           *)
(***************************************************************************)
C22Rejected(call) ==
    IF call.mct THEN call.logical_qubit \notin {0, 1}
    ELSE call.logical_qubit # 0 \/ ~call.extend_ancilla

C22IsValueError(exc) ==
    exc \in {"ValueError: errors can only be corrected for one or two logical qubit at present",
             "ValueError: errors can only be corrected for one logical qubit at present if mct as not used ",
             "ValueError: extra ancilla are needed to correct errors without mct"}

C22_CorrectErrorsRejectsBeforeAnyGate ==
    [][(args'.fn = "correct_errors" /\ C22Rejected(args'))
          => (C22IsValueError(ret'.exc) /\ circuit' = circuit)]_vars

\* C22 witness: after set_up_ancilla, correct_errors without mct on an object
\* built without extra ancilla raised and left the circuit as it was
C22_Witness ==
    /\ pc = "corrected"
    /\ ~args.mct
    /\ args.logical_qubit = 0
    /\ ~args.extend_ancilla
    /\ ret = Emitted("ValueError: extra ancilla are needed to correct errors without mct", <<>>)
    /\ circuit = set_up_ancilla(get_parity_check_matrix).gates

(***************************************************************************)
(* C23: phase-flip errors are corrected independently.  With the Steane    *)
(* matrix, for every data qubit i and both settings of mct, after a single *)
(* Z error on qubit i, set_up_ancilla and correct_errors the data qubits   *)
(* carry no residual phase error (the net Z-type error is the identity or  *)
(* a stabilizer, never a logical Z) and no bit-flip error: an encoded zero *)
(* is again the equal superposition of the codewords, and an encoded plus  *)
(* state the equal superposition of the codewords and their complements,   *)
(* every term with the same sign.                                          *)
(***************************************************************************)
C23CorrectedZero ==
    CallsAre(<<"set_up_logical_zero", "force_Z_error", "set_up_ancilla",
               "correct_errors">>)

C23CorrectedPlus ==
    CallsAre(<<"set_up_logical_zero", "logical_gate_H", "force_Z_error",
               "set_up_ancilla", "correct_errors">>)

\* every term of the state has the same amplitude, sign included
C23NoPhase == \A b1, b2 \in DOMAIN qstate : qstate[b1] = qstate[b2]

C23_ZErrorCorrected ==
    /\ C23CorrectedZero =>
          /\ qstate # MixedState
          /\ \A b \in DOMAIN qstate : InList(DataBits(b), get_codewords)
          /\ C23NoPhase
    /\ C23CorrectedPlus =>
          /\ qstate # MixedState
          /\ \A b \in DOMAIN qstate :
                 InList(DataBits(b), get_codewords \o flip_code_words(get_codewords))
          /\ C23NoPhase

(***************************************************************************)
(* SpecSyndrome: correct_errors(0, mct) with the Steane matrix and the     *)
(* extra ancilla, run from a basis state in which the X ancilla, the Z     *)
(* ancilla and the data qubits hold drawn values and the helper qubits     *)
(* are 0.                                                                  *)
(***************************************************************************)
MaxDataValue == 15      \* the data qubits hold the bits of 0..MaxDataValue

\* the value that the n qubits first..first+n-1 hold in the basis state b
RegisterValue(b, first, n) == (b \div (2 ^ first)) % (2 ^ n)

SyndromeBasis(data, mx, mz) ==
    LET M == get_parity_check_matrix
    IN  data + mx * 2 ^ MxQ(M, 0) + mz * 2 ^ MzQ(M, 0)

InitSyndrome ==
    /\ pc = "syndrome"
    /\ \E data \in 0..MaxDataValue, mx \in 0..(2 ^ Len(get_parity_check_matrix) - 1),
          mz \in 0..(2 ^ Len(get_parity_check_matrix) - 1) :
          /\ args = [data |-> data, mx |-> mx, mz |-> mz, mct |-> FALSE]
          /\ qstate = [b \in {SyndromeBasis(data, mx, mz)} |-> 1]
    /\ ret = NoValue
    /\ stage = "ancilla"
    /\ circuit = <<>>

CorrectFromSyndrome ==
    /\ pc = "syndrome"
    /\ \E mct \in BOOLEAN :
          LET emitted == correct_errors(get_parity_check_matrix, mct)
          IN  /\ args' = [args EXCEPT !.mct = mct]
              /\ ret' = emitted
              /\ circuit' = circuit \o emitted.gates
              /\ qstate' = RunGates(qstate, emitted.gates)
    /\ pc' = "corrected"
    /\ stage' = "corrected"

NextSyndrome == CorrectFromSyndrome

SpecSyndrome == InitSyndrome /\ [][NextSyndrome]_vars

(***************************************************************************)
(* C26: correct_errors leaves every ancilla in its pre-correction value:   *)
(* for each of the 8 Z-ancilla and 8 X-ancilla syndrome values, after      *)
(* correct_errors the four extra helper qubits are back at 0 (path without *)
(* mct) and every X-syndrome and Z-syndrome ancilla bit holds the value it *)
(* had before the correction (both paths).                                 *)
(***************************************************************************)
C26AncillaKept(b) ==
    LET M == get_parity_check_matrix
    IN  /\ RegisterValue(b, MxQ(M, 0), Len(M)) = args.mx
        /\ RegisterValue(b, MzQ(M, 0), Len(M)) = args.mz
        /\ RegisterValue(b, ExtraQ(M, 0), num_extra_ancilla) = 0

C26_AncillaRestored ==
    pc = "corrected"
        => /\ ret.exc = "none"
           /\ qstate # MixedState
           /\ DOMAIN qstate # {}
           /\ \A b \in DOMAIN qstate : C26AncillaKept(b)

\* C26 witness: without mct, the Z syndrome 111 flipped data qubits (the
\* helper qubits were used) and the ancilla hold what they held
C26_Witness ==
    /\ pc = "corrected"
    /\ ~args.mct
    /\ args.mz = 7
    /\ args.mx = 5
    /\ \A b \in DOMAIN qstate :
          /\ C26AncillaKept(b)
          /\ RegisterValue(b, 0, DATA_QUBITS) # args.data

(***************************************************************************)
(* C25: set_up_logical_zero fails with 'Unable to construct matrix as      *)
(* parity matrix does not match the ancilla needed' for every matrix whose *)
(* number of weight-1 columns differs from its number of rows, for         *)
(* reduced = True and for reduced = False.                                 *)
(***************************************************************************)
C25WeightOneColumns(parity_check_matrix) ==
    Cardinality({k \in 1..Len(parity_check_matrix[1]) :
                    parity_matrix_totals(parity_check_matrix)[k] = 1})

C25_MismatchedMatrixRejected ==
    (/\ pc = "done"
     /\ C25WeightOneColumns(args.parity_check_matrix) # Len(args.parity_check_matrix))
        => ret.exc = "ValueError: parity matrix does not match the ancilla needed"

(***************************************************************************)
(* C27: process_FT_results is shardable and order-independent: for any     *)
(* split of a histogram into two disjoint sub-histograms, the valid,       *)
(* invalid, accepted and rejected counts computed on the whole equal the   *)
(* element-wise sums of those computed on the parts, and the result does   *)
(* not depend on the order in which the entries are visited.               *)
(***************************************************************************)
\* the entries of counts at the positions in S, in their order
C27Part(counts, S) == SelectSeq(counts, LAMBDA entry : \E k \in S : counts[k] = entry)

\* the orders in which the entries of counts can be visited
C27Orders(counts) ==
    {[k \in 1..Len(counts) |-> counts[f[k]]] :
        f \in {g \in [1..Len(counts) -> 1..Len(counts)] :
                  \A i, j \in 1..Len(counts) : g[i] = g[j] => i = j}}

C27SumOfParts(whole, part1, part2) ==
    /\ whole.count_valid = part1.count_valid + part2.count_valid
    /\ whole.count_invalid = part1.count_invalid + part2.count_invalid
    /\ whole.accepted = part1.accepted + part2.accepted
    /\ whole.rejected = part1.rejected + part2.rejected

C27_ShardableAndOrderIndependent ==
    FTCall =>
        /\ \A S \in SUBSET (1..Len(args.counts)) :
              LET part1 == process_FT_results(C27Part(args.counts, S), args.cfg)
                  part2 == process_FT_results(
                               C27Part(args.counts, (1..Len(args.counts)) \ S), args.cfg)
              IN  IF ret.exc = "none"
                  THEN /\ part1.exc = "none"
                       /\ part2.exc = "none"
                       /\ C27SumOfParts(ret, part1, part2)
                  ELSE part1.exc # "none" \/ part2.exc # "none"
        /\ \A visited \in C27Orders(args.counts) :
              LET other == process_FT_results(visited, args.cfg)
              IN  IF ret.exc = "none" THEN other = ret ELSE other.exc # "none"

\* C27 witness: a histogram of two entries, one accepted and valid, the
\* other rejected, was processed
C27_Witness ==
    /\ FTReturned
    /\ Len(args.counts) = 2
    /\ process_FT_results(<<args.counts[1]>>, args.cfg).count_valid > 0
    /\ process_FT_results(<<args.counts[2]>>, args.cfg).rejected > 0
    /\ ret.count_valid > 0
    /\ ret.rejected > 0

(***************************************************************************)
(* SpecFTAncilla: set_up_ancilla() on an object built with                 *)
(* fault_tolerant_ancilla = True (d = 1): every row of the matrix has a    *)
(* register of num_ft_anc ancilla qubits of type X and one of type Z.      *)
(* The qubits are numbered in the order define_registers adds them: data,  *)
(* the X registers, the Z registers.                                       *)
(***************************************************************************)
num_ft_anc == 4

FtMxQ(parity_check_matrix, index, index2) ==
    Len(parity_check_matrix[1]) + num_ft_anc * index + index2

FtMzQ(parity_check_matrix, index, index2) ==
    Len(parity_check_matrix[1]) + num_ft_anc * Len(parity_check_matrix)
        + num_ft_anc * index + index2

\* one gate on the X register and the same on the Z register of row index,
\* for the sub-ancilla index2 (and its neighbour for cx)
FtPair(parity_check_matrix, op, index, index2) ==
    LET M == parity_check_matrix
    IN  IF op = "cx"
        THEN <<Gate("cx", <<FtMxQ(M, index, index2), FtMxQ(M, index, index2 + 1)>>),
               Gate("cx", <<FtMzQ(M, index, index2), FtMzQ(M, index, index2 + 1)>>)>>
        ELSE <<Gate(op, <<FtMxQ(M, index, index2)>>),
               Gate(op, <<FtMzQ(M, index, index2)>>)>>

\* lines 417-422 with order = Range(0, 3), lines 459-464 with order = <<2, 1, 0>>
FtChains(parity_check_matrix, order) ==
    ConcatAll([r \in 1..Len(parity_check_matrix) |->
        ConcatAll([n \in 1..Len(order) |->
            FtPair(parity_check_matrix, "cx", r - 1, order[n])])])

\* lines 430-453: the coupling gates op from the registers of type X
\* (z_type FALSE) or Z; next_x_ancilla[index] counts the ones met in the row,
\* and indexing the register at num_ft_anc raises
FtCouplings(parity_check_matrix, op, z_type) ==
    LET M == parity_check_matrix
        ones == MatrixOnes(M)
        next_ancilla(n) ==
            Cardinality({m \in 1..(n - 1) : ones[m][1] = ones[n][1]})
        bad == {n \in 1..Len(ones) : next_ancilla(n) >= num_ft_anc}
        good == IF bad = {} THEN Len(ones) ELSE MinOf(bad) - 1
    IN  Emitted(IF bad = {} THEN "none" ELSE "CircuitError: register size error",
                [n \in 1..good |->
                    Gate(op, <<IF z_type THEN FtMzQ(M, ones[n][1], next_ancilla(n))
                               ELSE FtMxQ(M, ones[n][1], next_ancilla(n)),
                               DataQ(M, ones[n][2])>>)])

\* set_up_ancilla() that undoes the GHZ chains in the order it made them
set_up_ancilla_ft_forward_undo(parity_check_matrix) ==
    LET M == parity_check_matrix
        rows == Range(0, Len(M))
        barrier == <<Gate("barrier", <<>>)>>
        resets == ConcatAll([r \in 1..Len(M) |->
                      ConcatAll([k \in 1..num_ft_anc |-> FtPair(M, "reset", r - 1, k - 1)])])
        hadamards == ConcatAll([r \in 1..Len(M) |-> FtPair(M, "h", r - 1, 0)])
        before == resets \o barrier \o hadamards \o barrier
                      \o FtChains(M, Range(0, num_ft_anc - 1)) \o barrier
        cx == FtCouplings(M, "cx", FALSE)
        cz == FtCouplings(M, "cz", TRUE)
    IN  IF cx.exc # "none" THEN Emitted(cx.exc, before \o cx.gates)
        ELSE Emitted("none",
                 before \o cx.gates \o barrier \o cz.gates \o barrier
                 \o FtChains(M, Range(0, num_ft_anc - 1))
                 \o barrier \o hadamards \o barrier)

\* set_up_ancilla(logical_qubit = 0) with fault tolerant ancilla
set_up_ancilla_ft(parity_check_matrix) ==
    LET M == parity_check_matrix
        rows == Range(0, Len(M))
        barrier == <<Gate("barrier", <<>>)>>
        resets == ConcatAll([r \in 1..Len(M) |->
                      ConcatAll([k \in 1..num_ft_anc |-> FtPair(M, "reset", r - 1, k - 1)])])
        hadamards == ConcatAll([r \in 1..Len(M) |-> FtPair(M, "h", r - 1, 0)])
        before == resets \o barrier \o hadamards \o barrier
                      \o FtChains(M, Range(0, num_ft_anc - 1)) \o barrier
        cx == FtCouplings(M, "cx", FALSE)
        cz == FtCouplings(M, "cz", TRUE)
    IN  IF cx.exc # "none" THEN Emitted(cx.exc, before \o cx.gates)
        ELSE Emitted("none",
                 before \o cx.gates \o barrier \o cz.gates \o barrier
                 \o FtChains(M, [k \in 1..(num_ft_anc - 1) |-> num_ft_anc - 1 - k])
                 \o barrier \o hadamards \o barrier)

FtRows == 2     \* rows of the drawn matrices

\* the Steane matrix, and matrices of FtRows rows of even weight, which the
\* constructor accepts with the codeword of zeros
FtMatrices == SeqsOfLen(ZeroRowStrings, FtRows) \cup {get_parity_check_matrix}

InitFTAncilla ==
    /\ pc = "call"
    /\ args \in [fn : {"set_up_ancilla"}, parity_check_matrix : FtMatrices]
    /\ ret = NoValue
    /\ stage = "unused"
    /\ circuit = <<>>
    /\ qstate = <<>>

SetUpAncillaFT ==
    /\ pc = "call"
    /\ ret' = set_up_ancilla_ft(args.parity_check_matrix)
    /\ circuit' = circuit \o set_up_ancilla_ft(args.parity_check_matrix).gates
    /\ pc' = "done"
    /\ UNCHANGED <<args, stage, qstate>>

NextFTAncilla == SetUpAncillaFT

SpecFTAncilla == InitFTAncilla /\ [][NextFTAncilla]_vars

\* the ancilla blocks: <<first qubit, coupling gate>> per row and type
FtBlocks(parity_check_matrix) ==
    {<<FtMxQ(parity_check_matrix, index, 0), "cx">> :
        index \in 0..(Len(parity_check_matrix) - 1)}
    \cup {<<FtMzQ(parity_check_matrix, index, 0), "cz">> :
        index \in 0..(Len(parity_check_matrix) - 1)}

\* the positions in the circuit of the data-coupling gates controlled by a
\* qubit of the block
FtCouplingPositions(block) ==
    {n \in 1..Len(circuit) :
        /\ circuit[n].op = block[2]
        /\ circuit[n].qs[1] \in block[1]..(block[1] + num_ft_anc - 1)
        /\ circuit[n].qs[2] < Len(args.parity_check_matrix[1])}

\* the positions of the chain gate cx j -> j + 1 of the block
FtChainPositions(block, j) ==
    {n \in 1..Len(circuit) : circuit[n] = Gate("cx", <<block[1] + j, block[1] + j + 1>>)}

(***************************************************************************)
(* C28: in fault-tolerant ancilla mode set_up_ancilla emits, for every     *)
(* 4-qubit ancilla block, the GHZ chain cx j -> j+1 (j = 0..2) before the  *)
(* first data-coupling gate controlled by any qubit of that block, and the *)
(* disentangling chain in reverse order (2 -> 3, 1 -> 2, 0 -> 1) after the *)
(* last data-coupling gate of that block.                                  *)
(***************************************************************************)
C28GhzFirst(block) ==
    /\ \A j \in 0..(num_ft_anc - 2) : FtChainPositions(block, j) # {}
    /\ \A j \in 0..(num_ft_anc - 3) :
          MinOf(FtChainPositions(block, j)) < MinOf(FtChainPositions(block, j + 1))
    /\ \A n \in FtCouplingPositions(block) :
          MinOf(FtChainPositions(block, num_ft_anc - 2)) < n

C28UndoneLast(block) ==
    /\ \A j \in 0..(num_ft_anc - 2) : Cardinality(FtChainPositions(block, j)) = 2
    /\ \A j \in 0..(num_ft_anc - 3) :
          MaxOf(FtChainPositions(block, j + 1)) < MaxOf(FtChainPositions(block, j))
    /\ \A n \in FtCouplingPositions(block) :
          n < MaxOf(FtChainPositions(block, num_ft_anc - 2))

C29RoundRobin(block) ==
    LET positions == SortedSeq(FtCouplingPositions(block))
    IN  \A t \in 1..Len(positions) :
            circuit[positions[t]].qs[1] = block[1] + ((t - 1) % num_ft_anc)

C29RowWeight(parity_check_matrix, index) ==
    Cardinality({c \in 1..Len(parity_check_matrix[1]) :
                    parity_check_matrix[index + 1][c] = "1"})

C29_CouplingsRoundRobin ==
    pc = "done" =>
        /\ ret.exc = "none"
        /\ \A index \in 0..(Len(args.parity_check_matrix) - 1) :
              LET M == args.parity_check_matrix
              IN  /\ C29RoundRobin(<<FtMxQ(M, index, 0), "cx">>)
                  /\ C29RoundRobin(<<FtMzQ(M, index, 0), "cz">>)
                  /\ Cardinality(FtCouplingPositions(<<FtMxQ(M, index, 0), "cx">>))
                        = C29RowWeight(M, index)
                  /\ Cardinality(FtCouplingPositions(<<FtMzQ(M, index, 0), "cz">>))
                        = C29RowWeight(M, index)

(***************************************************************************)
(* helper_functions.py: summarise_logical_counts and look_up_data          *)
(*                                                                         *)
(* A dictionary is a function from its keys to their values.               *)
(***************************************************************************)
look_up_data(input_string, logical_zero, logical_one) ==
    IF InList(input_string, logical_zero) THEN "0"
    ELSE IF InList(input_string, logical_one) THEN "1"
    ELSE "E"

\* new_key for one key of counts
SummaryKey(key, logical_zero_strings, logical_one_strings, data1_location, data2_location) ==
    <<look_up_data(string_reverse(At(Split(key), data1_location)),
                   logical_zero_strings, logical_one_strings),
      look_up_data(string_reverse(At(Split(key), data2_location)),
                   logical_zero_strings, logical_one_strings)>>

\* the keys new_counts is set up with: str(i) + str(j) for i, j in range(3)
SummaryStartKeys == {<<i, j>> : i \in {"0", "1", "2"}, j \in {"0", "1", "2"}}

summarise_logical_counts(counts, logical_zero_strings, logical_one_strings, data1_location, data2_location) ==
    LET new_key(k) == SummaryKey(counts[k][1], logical_zero_strings,
                                 logical_one_strings, data1_location, data2_location)
    IN  [key \in SummaryStartKeys \cup {new_key(k) : k \in 1..Len(counts)} |->
            SumSeq([k \in 1..Len(counts) |->
                       IF new_key(k) = key THEN counts[k][2] ELSE 0])]

(***************************************************************************)
(* SpecSummarise: one call of summarise_logical_counts on a histogram of   *)
(* keys with two data segments, classified against the Steane codewords    *)
(* (logical zero) and their complements (logical one).                     *)
(***************************************************************************)
\* data segments as printed: a logical zero, a logical one, and a string
\* outside both sets
SummarySegments ==
    <<string_reverse(get_codewords[5]),
      string_reverse(flip_code_words(get_codewords)[2]),
      <<"0","0","0","0","0","0","1">> >>

SummaryPool ==
    ConcatAll([a \in 1..Len(SummarySegments) |->
        [b \in 1..Len(SummarySegments) |->
            Join(<<SummarySegments[a], SummarySegments[b]>>)]])

InitSummarise ==
    /\ pc = "call"
    /\ \E counts \in FTHistograms(SummaryPool), data1_location \in {0, 1},
          data2_location \in {0, 1} :
           args = [fn |-> "summarise_logical_counts", counts |-> counts,
                   data1_location |-> data1_location,
                   data2_location |-> data2_location]
    /\ ret = NoValue
    /\ stage = "unused"
    /\ circuit = <<>>
    /\ qstate = <<>>

CallSummariseLogicalCounts ==
    /\ pc = "call"
    /\ ret' = summarise_logical_counts(args.counts, get_codewords,
                                       flip_code_words(get_codewords),
                                       args.data1_location, args.data2_location)
    /\ pc' = "done"
    /\ UNCHANGED <<args, stage, circuit, qstate>>

NextSummarise == CallSummariseLogicalCounts

SpecSummarise == InitSummarise /\ [][NextSummarise]_vars

(***************************************************************************)
(* C24: summarise_logical_counts returns a dictionary whose keys are       *)
(* exactly the nine two-character strings over 0, 1, 2 (0 logical zero,    *)
(* 1 logical one, 2 outside the code space; the first character for        *)
(* data1_location, the second for data2_location), every input count is    *)
(* added to exactly one key, and the values sum to the input total.        *)
(***************************************************************************)
\* the character the claim gives to a reversed data segment
C24Class(segment) ==
    IF InList(string_reverse(segment), get_codewords) THEN "0"
    ELSE IF InList(string_reverse(segment), flip_code_words(get_codewords)) THEN "1"
    ELSE "2"

C24Key(key) ==
    <<C24Class(Segment(key, args.data1_location)),
      C24Class(Segment(key, args.data2_location))>>

\* the sum of the values of the dictionary over the keys in S
RECURSIVE C24SumValues(_, _)
C24SumValues(dictionary, S) ==
    IF S = {} THEN 0
    ELSE LET key == CHOOSE k \in S : TRUE
         IN  dictionary[key] + C24SumValues(dictionary, S \ {key})

C24_NineKeysPartitionCounts ==
    pc = "done" =>
        /\ DOMAIN ret = SummaryStartKeys
        /\ \A key \in SummaryStartKeys :
              ret[key] = SumSeq([k \in 1..Len(args.counts) |->
                                    IF C24Key(args.counts[k][1]) = key
                                    THEN args.counts[k][2] ELSE 0])
        /\ C24SumValues(ret, DOMAIN ret) = TotalShots(args.counts)

=============================================================================
